---- MODULE Spec2Model ----
(***************************************************************************)
(* Webhook ingestion and rule-execution pipeline of AmoLP:                 *)
(*   server/services/webhookService.ts   (WebhookService)                  *)
(*   server/config/queue.ts              (Bull queue, job handlers)        *)
(*   server/config/redis.ts              (RedisCache)                      *)
(*   server/services/performanceOptimizer.ts (rules cache, cache flushes)  *)
(*   server/middleware/security.ts       (rate limiters)                   *)
(***************************************************************************)
EXTENDS Integers, Sequences, FiniteSets, TLC

(***************************************************************************)
(* Bounds of the model.                                                    *)
(***************************************************************************)
\* number of conditions in a condition tree handed to checkConditions
MaxConds == 2
\* number of entries in the updated-fields list handed to isWebhookRelevant
MaxUpd == 2
\* number of webhook deliveries submitted to the queue
MaxJobs == 2
\* number of failing calls of external collaborators (Redis, database, CRM)
MaxFaults == 1
\* jobs added while every attempt raises
MaxParked == 52
\* jobs added in a burst, before any handler has ended
MaxBurst == 11
\* seconds by which one step of the clock advances
TickStep == 300
\* milliseconds by which Date.now() advances between two requests that do
\* not come at the same time
ClockStep == 60000
\* number of such advances
MaxClock == 2
\* number of requests of one address to /webhook/ paths within one minute
MaxHooks == 1

(***************************************************************************)
(* Program constants.                                                      *)
(***************************************************************************)
\* WebhookService.WEBHOOK_DEDUP_TTL = 10 * 60
WEBHOOK_DEDUP_TTL == 600
\* PerformanceOptimizer.RULES_CACHE_TTL = 5 * 60
RULES_CACHE_TTL == 300
\* defaultJobOptions.attempts / the attempts option of webhookQueue.add
JobAttempts == 3
\* backoff: { type: 'exponential', delay: 2000 }, milliseconds
BackoffDelay == 2000
\* webhookQueue.process('amocrm-webhook', 10, ...)
AmoConcurrency == 10
\* webhookQueue.process('lptracker-webhook', 10, ...)
LpConcurrency == 10
\* removeOnComplete: the completed jobs the queue keeps
RemoveOnComplete == 100
\* removeOnFail: the failed jobs the queue keeps
RemoveOnFail == 50
\* apiLimiter = rateLimit(15 * 60 * 1000, 100)
ApiWindowMs == 900000
ApiMax == 100
\* webhookLimiter = rateLimit(1 * 60 * 1000, 60)
WebhookWindowMs == 60000
WebhookMax == 60

\* the two concurrent slots of a topic's worker pool that the model follows
Workers == {"w1", "w2"}

(***************************************************************************)
(* JavaScript values.  Strings whose substrings matter (field names) are   *)
(* tuples of characters; the others are TLA+ strings.  UNDEF is the value  *)
(* undefined, and String(undefined) is the word "undefined".               *)
(***************************************************************************)
UNDEF == "undefined"

\* truthiness of a string-or-undefined value, as the operands of || and !
Truthy(v) == v # UNDEF /\ v # ""

\* a || b
OrElse(a, b) == IF Truthy(a) THEN a ELSE b

\* String.prototype.includes
StrIncludes(hay, needle) ==
    \E i \in 0..(Len(hay) - Len(needle)) :
        SubSeq(hay, i + 1, i + Len(needle)) = needle

\* undefined where a string of characters is expected (a field id, a field
\* value); the empty string is <<>>
UNDEFS == <<"undefined">>

\* Array.prototype.find by the key k: the index of the first element whose
\* key equals want, or 0 when find returns undefined
RECURSIVE FindBy(_, _, _, _)
FindBy(list, k, want, i) ==
    IF i > Len(list) THEN 0
    ELSE IF list[i][k] = want THEN i
    ELSE FindBy(list, k, want, i + 1)

\* custom_fields_values?.find(f => f.field_id == field)?.values?.[0]?.value
AmoFieldValue(ctx, field) ==
    LET i == FindBy(ctx.amoFields, "field_id", field, 1)
    IN  IF i = 0 THEN UNDEFS ELSE ctx.amoFields[i].value

\* custom?.find(f => f.id == field)?.value
LpFieldValue(ctx, field) ==
    LET i == FindBy(ctx.lpFields, "id", field, 1)
    IN  IF i = 0 THEN UNDEFS ELSE ctx.lpFields[i].value

(***************************************************************************)
(* WebhookService.checkConditions                                          *)
(***************************************************************************)
\* the switch over condition.type with a default branch that returns true
EvalCondition_DefaultTrue(c, ctx) ==
    CASE c.type = "event_type" -> ctx.type = c.value
      [] c.type = "pipeline" ->
            OrElse(ctx.leadPipeline, ctx.payPipeline) = c.value
      [] c.type = "status" ->
            OrElse(ctx.leadStatus,
                   OrElse(ctx.payStatus,
                          OrElse(ctx.stage_id, ctx.stageObjId))) = c.value
      [] c.type = "field_equals" ->
            IF AmoFieldValue(ctx, c.field) # UNDEFS
            THEN AmoFieldValue(ctx, c.field) = c.value
            ELSE IF LpFieldValue(ctx, c.field) # UNDEFS
            THEN LpFieldValue(ctx, c.field) = c.value
            ELSE FALSE
      [] c.type = "field_contains" ->
            IF AmoFieldValue(ctx, c.field) # UNDEFS
            THEN StrIncludes(AmoFieldValue(ctx, c.field), c.value)
            ELSE IF LpFieldValue(ctx, c.field) # UNDEFS
            THEN StrIncludes(LpFieldValue(ctx, c.field), c.value)
            ELSE FALSE
      [] c.type = "field_not_empty" ->
            IF AmoFieldValue(ctx, c.field) # UNDEFS
            THEN AmoFieldValue(ctx, c.field) # <<>>
            ELSE IF LpFieldValue(ctx, c.field) # UNDEFS
            THEN LpFieldValue(ctx, c.field) # <<>>
            ELSE FALSE
      [] OTHER -> TRUE

\* the switch over condition.type, one condition against the event data
EvalCondition(c, ctx) ==
    CASE c.type = "event_type" -> ctx.type = c.value
      [] c.type = "pipeline" ->
            OrElse(ctx.leadPipeline, ctx.payPipeline) = c.value
      [] c.type = "status" ->
            OrElse(ctx.leadStatus,
                   OrElse(ctx.payStatus,
                          OrElse(ctx.stage_id, ctx.stageObjId))) = c.value
      [] c.type = "field_equals" ->
            IF AmoFieldValue(ctx, c.field) # UNDEFS
            THEN AmoFieldValue(ctx, c.field) = c.value
            ELSE IF LpFieldValue(ctx, c.field) # UNDEFS
            THEN LpFieldValue(ctx, c.field) = c.value
            ELSE FALSE
      [] c.type = "field_contains" ->
            IF AmoFieldValue(ctx, c.field) # UNDEFS
            THEN StrIncludes(AmoFieldValue(ctx, c.field), c.value)
            ELSE IF LpFieldValue(ctx, c.field) # UNDEFS
            THEN StrIncludes(LpFieldValue(ctx, c.field), c.value)
            ELSE FALSE
      [] c.type = "field_not_empty" ->
            IF AmoFieldValue(ctx, c.field) # UNDEFS
            THEN AmoFieldValue(ctx, c.field) # <<>>
            ELSE IF LpFieldValue(ctx, c.field) # UNDEFS
            THEN LpFieldValue(ctx, c.field) # <<>>
            ELSE FALSE
      [] OTHER -> FALSE

\* conditions.rules.map(...)
EvalResults(conds, ctx) ==
    [i \in 1..Len(conds.rules) |-> EvalCondition(conds.rules[i], ctx)]

\* results.some(r => r)
ArraySome(results) == \E i \in 1..Len(results) : results[i]

\* results.every(r => r)
ArrayEvery(results) == \A i \in 1..Len(results) : results[i]

\* checkConditions taking an omitted operator for OR
checkConditions_DefaultOr(conds, ctx) ==
    IF conds.kind \in {"null", "norules"} THEN FALSE
    ELSE IF conds.kind = "notlist" THEN FALSE
    ELSE IF OrElse(conds.operator, "OR") = "OR"
         THEN ArraySome(EvalResults(conds, ctx))
         ELSE ArrayEvery(EvalResults(conds, ctx))

\* checkConditions(conditions, eventData).  conds.kind tells what the
\* conditions value is: "null" (no conditions), "norules" (an object
\* without a rules member), "notlist" (rules is not an array: map throws,
\* the catch returns false) or "list".
checkConditions(conds, ctx) ==
    IF conds.kind \in {"null", "norules"} THEN FALSE
    ELSE IF conds.kind = "notlist" THEN FALSE
    ELSE IF OrElse(conds.operator, "AND") = "OR"
         THEN ArraySome(EvalResults(conds, ctx))
         ELSE ArrayEvery(EvalResults(conds, ctx))

(***************************************************************************)
(* WebhookService.isWebhookRelevant                                        *)
(***************************************************************************)
F_stage == <<"s", "t", "a", "g", "e">>
F_stage_id == <<"s", "t", "a", "g", "e", "_", "i", "d">>
F_payments == <<"p", "a", "y", "m", "e", "n", "t", "s">>
F_custom == <<"c", "u", "s", "t", "o", "m", ".">>
\* names of custom fields, as rules and updated-fields lists carry them
F_ab == <<"a", "b">>
F_xab == <<"x", "a", "b">>
F_zz == <<"z", "z">>

\* updatedFields.includes(name)
ArrayIncludes(list, x) == \E i \in 1..Len(list) : list[i] = x

\* updatedFields.some(f => f.includes(name) || f === `custom.${name}`)
TouchesField(updatedFields, name) ==
    \E i \in 1..Len(updatedFields) :
        \/ StrIncludes(updatedFields[i], name)
        \/ updatedFields[i] = F_custom \o name

\* condition.field && condition.type?.includes('field_')
IsFieldCondition(c) ==
    /\ c.field # UNDEFS /\ c.field # <<>>
    /\ c.type \in {"field_equals", "field_contains", "field_not_empty"}

\* isWebhookRelevant without the branch for payments
isWebhookRelevant_StageOnly(upd, rule) ==
    IF ~upd.isList THEN TRUE
    ELSE IF ArrayIncludes(upd.fields, F_stage)
            \/ ArrayIncludes(upd.fields, F_stage_id) THEN TRUE
    ELSE IF /\ rule.conditions.kind = "list"
            /\ \E i \in 1..Len(rule.conditions.rules) :
                  /\ IsFieldCondition(rule.conditions.rules[i])
                  /\ TouchesField(upd.fields, rule.conditions.rules[i].field)
         THEN TRUE
    ELSE IF /\ rule.actions.kind = "list"
            /\ \E i \in 1..Len(rule.actions.list) :
                  \E m \in 1..Len(rule.actions.list[i].fieldMappings) :
                      TouchesField(upd.fields,
                                   rule.actions.list[i].fieldMappings[m])
         THEN TRUE
    ELSE FALSE

\* isWebhookRelevant(webhookData, rule); upd is action_update_fields
isWebhookRelevant(upd, rule) ==
    IF ~upd.isList THEN TRUE
    ELSE IF ArrayIncludes(upd.fields, F_stage)
            \/ ArrayIncludes(upd.fields, F_stage_id) THEN TRUE
    ELSE IF ArrayIncludes(upd.fields, F_payments) THEN TRUE
    ELSE IF /\ rule.conditions.kind = "list"
            /\ \E i \in 1..Len(rule.conditions.rules) :
                  /\ IsFieldCondition(rule.conditions.rules[i])
                  /\ TouchesField(upd.fields, rule.conditions.rules[i].field)
         THEN TRUE
    ELSE IF /\ rule.actions.kind = "list"
            /\ \E i \in 1..Len(rule.actions.list) :
                  \E m \in 1..Len(rule.actions.list[i].fieldMappings) :
                      TouchesField(upd.fields,
                                   rule.actions.list[i].fieldMappings[m])
         THEN TRUE
    ELSE FALSE

(***************************************************************************)
(* The configuration store: users, their CRM settings and their rules.     *)
(***************************************************************************)
U1 == <<"u", "1">>
U2 == <<"u", "1", "2">>
U3 == <<"u", "3">>
U4 == <<"u", "4">>
NoUser == <<>>
Users == {U1, U2, U3, U4}

\* rows of the AmoCRM settings, in the order of the users table
AmoSettings ==
    << [userId |-> U1, subdomain |-> "s1", apiKey |-> UNDEF],
       [userId |-> U2, subdomain |-> "s2", apiKey |-> "k2"] >>

\* rows returned by getAllLpTrackerSettings
LpSettings ==
    << [userId |-> U1, projectId |-> "p1"],
       [userId |-> U2, projectId |-> "p2"],
       [userId |-> U3, projectId |-> "p3"],
       [userId |-> U4, projectId |-> "p4"] >>

Cond(t, f, v) == [type |-> t, field |-> f, value |-> v]
CondList(op, rs) == [kind |-> "list", operator |-> op, rules |-> rs]
Action(t) == [type |-> t, searchBy |-> UNDEF, fieldMappings |-> <<>>]
ActionList(as) == [kind |-> "list", list |-> as]

\* the sync rules table, in stored order
StorageRules ==
    << [id |-> 1, userId |-> U1, webhookSource |-> "lptracker",
        isActive |-> TRUE,
        conditions |-> CondList("AND", <<Cond("status", UNDEFS, "142")>>),
        actions |-> ActionList(<<Action("sync_to_amocrm"),
                                 Action("sync_to_amocrm")>>)],
       [id |-> 2, userId |-> U1, webhookSource |-> "lptracker",
        isActive |-> FALSE,
        conditions |-> CondList("OR", <<Cond("status", UNDEFS, "142")>>),
        actions |-> ActionList(<<Action("sync_to_amocrm")>>)],
       [id |-> 3, userId |-> U2, webhookSource |-> "amocrm",
        isActive |-> TRUE,
        conditions |-> CondList(UNDEF, <<Cond("status", UNDEFS, "142")>>),
        actions |-> ActionList(<<Action("sync_to_lptracker")>>)],
       [id |-> 4, userId |-> U2, webhookSource |-> "amocrm",
        isActive |-> TRUE,
        conditions |-> CondList("AND", <<Cond("pipeline", UNDEFS, "5"),
                                         Cond("status", UNDEFS, "142")>>),
        actions |-> ActionList(<<Action("sync_to_lptracker")>>)],
       [id |-> 5, userId |-> U3, webhookSource |-> "lptracker",
        isActive |-> TRUE,
        conditions |-> CondList("AND", <<Cond("status", UNDEFS, "999")>>),
        actions |-> ActionList(<<Action("sync_to_amocrm")>>)],
       [id |-> 6, userId |-> U3, webhookSource |-> "lptracker",
        isActive |-> TRUE,
        conditions |-> CondList("AND", <<Cond("status", UNDEFS, "142")>>),
        actions |-> ActionList(<<[Action("sync_to_amocrm") EXCEPT
                                    !.fieldMappings = <<F_ab>>]>>)],
       [id |-> 7, userId |-> U3, webhookSource |-> "lptracker",
        isActive |-> TRUE,
        conditions |-> CondList("AND", <<Cond("status", UNDEFS, "142")>>),
        actions |-> ActionList(<<[Action("sync_to_amocrm") EXCEPT
                                    !.fieldMappings = <<F_zz>>]>>)],
       [id |-> 8, userId |-> U4, webhookSource |-> "lptracker",
        isActive |-> TRUE,
        conditions |-> CondList("AND", <<Cond("status", UNDEFS, "142")>>),
        actions |-> ActionList(<<Action("send_email"),
                                 [Action("sync_to_amocrm") EXCEPT
                                    !.searchBy = "email"],
                                 Action("sync_to_lptracker"),
                                 [Action("sync_to_amocrm") EXCEPT
                                    !.searchBy = ""]>>)] >>

RuleIds == {StorageRules[i].id : i \in 1..Len(StorageRules)}
Rule(id) == CHOOSE r \in {StorageRules[i] : i \in 1..Len(StorageRules)} :
                r.id = id

\* storage.getSyncRules(userId): the ids of the user's rules, in stored order
getSyncRules(userId) ==
    LET owned == SelectSeq(StorageRules, LAMBDA r : r.userId = userId)
    IN  [i \in 1..Len(owned) |-> owned[i].id]

\* findUserBySubdomain: the first user whose AmoCRM settings carry the
\* subdomain; null when none does or when the database read fails
RECURSIVE ScanSubdomain(_, _)
ScanSubdomain(subdomain, i) ==
    IF i > Len(AmoSettings) THEN NoUser
    ELSE IF AmoSettings[i].subdomain = subdomain THEN AmoSettings[i].userId
    ELSE ScanSubdomain(subdomain, i + 1)
\* findUserBySubdomain falling back to the first settings row on a miss
findUserBySubdomain_Fallback(subdomain, dbOk) ==
    IF dbOk /\ ScanSubdomain(subdomain, 1) # NoUser
    THEN ScanSubdomain(subdomain, 1)
    ELSE AmoSettings[1].userId
findUserBySubdomain(subdomain, dbOk) ==
    IF dbOk THEN ScanSubdomain(subdomain, 1) ELSE NoUser

\* findUserByProjectId: the first settings row with the project id; null
\* when none matches or when the database read fails
RECURSIVE ScanProject(_, _)
ScanProject(projectId, i) ==
    IF i > Len(LpSettings) THEN NoUser
    ELSE IF LpSettings[i].projectId = projectId THEN LpSettings[i].userId
    ELSE ScanProject(projectId, i + 1)
findUserByProjectId(projectId, dbOk) ==
    IF dbOk THEN ScanProject(projectId, 1) ELSE NoUser

(***************************************************************************)
(* Webhook deliveries.  An event is the payload a sender posts, together   *)
(* with what the AmoCRM lead API answers for it (ctx of an AmoCRM event,   *)
(* and contacts, the number of entries of _embedded.contacts);             *)
(* for LPTracker ctx is the parsed webhookData itself.                     *)
(***************************************************************************)
NoCtx == [type |-> UNDEF, leadPipeline |-> UNDEF, payPipeline |-> UNDEF,
          leadStatus |-> UNDEF, payStatus |-> UNDEF, stage_id |-> UNDEF,
          stageObjId |-> UNDEF, amoFields |-> <<>>, lpFields |-> <<>>]

NoEvent == [src |-> "lptracker", owner |-> UNDEF, parseOk |-> TRUE,
            add |-> UNDEF, status |-> UNDEF, update |-> UNDEF,
            delete |-> UNDEF, id |-> UNDEF, ts |-> 0, contacts |-> 0,
            upd |-> [isList |-> FALSE, fields |-> <<>>], ctx |-> NoCtx]

EventNames == {"lp", "lp2", "lp_noid", "lp_lost", "lp_noproj", "lp_bad",
               "lp3_zz", "lp3_sub",
               "amo", "amo_nokey", "amo_noid", "amo_lost", "amo_nosub"}

Event(n) ==
    CASE n = "lp" ->
            [NoEvent EXCEPT !.owner = "p1", !.id = "7", !.ts = 1,
                            !.ctx = [NoCtx EXCEPT !.stage_id = "142"]]
      [] n = "lp_later" ->
            [NoEvent EXCEPT !.owner = "p1", !.id = "7", !.ts = 2,
                            !.ctx = [NoCtx EXCEPT !.stage_id = "142"]]
      [] n = "lp_nots" ->
            [NoEvent EXCEPT !.owner = "p1", !.id = "7",
                            !.ctx = [NoCtx EXCEPT !.stage_id = "142"]]
      [] n = "lp4" ->
            [NoEvent EXCEPT !.owner = "p4", !.id = "7", !.ts = 1,
                            !.ctx = [NoCtx EXCEPT !.stage_id = "142"]]
      [] n = "lp2" ->
            [NoEvent EXCEPT !.owner = "p2", !.id = "9",
                            !.ctx = [NoCtx EXCEPT !.stage_id = "142"]]
      [] n = "lp3_zz" ->
            [NoEvent EXCEPT !.owner = "p3", !.id = "7", !.ts = 1,
                            !.upd = [isList |-> TRUE, fields |-> <<F_zz>>],
                            !.ctx = [NoCtx EXCEPT !.stage_id = "142"]]
      [] n = "lp3_sub" ->
            [NoEvent EXCEPT !.owner = "p3", !.id = "7", !.ts = 1,
                            !.upd = [isList |-> TRUE, fields |-> <<F_xab>>],
                            !.ctx = [NoCtx EXCEPT !.stage_id = "142"]]
      [] n = "lp_noid" ->
            [NoEvent EXCEPT !.owner = "p1",
                            !.ctx = [NoCtx EXCEPT !.stage_id = "142"]]
      [] n = "lp_lost" -> [NoEvent EXCEPT !.owner = "zz", !.id = "7"]
      [] n = "lp_noproj" -> [NoEvent EXCEPT !.id = "7"]
      [] n = "lp_bad" -> [NoEvent EXCEPT !.parseOk = FALSE]
      [] n = "amo" ->
            [NoEvent EXCEPT !.src = "amocrm", !.owner = "s2",
                            !.status = "7",
                            !.ctx = [NoCtx EXCEPT !.leadPipeline = "5",
                                                  !.leadStatus = "142"]]
      [] n = "amo_upd" ->
            [NoEvent EXCEPT !.src = "amocrm", !.owner = "s2",
                            !.update = "7", !.ts = 2,
                            !.ctx = [NoCtx EXCEPT !.type = "update",
                                                  !.leadPipeline = "5",
                                                  !.leadStatus = "142"]]
      [] n = "amo_ct" ->
            [NoEvent EXCEPT !.src = "amocrm", !.owner = "s2",
                            !.add = "7", !.contacts = 2,
                            !.ctx = [NoCtx EXCEPT !.leadPipeline = "5",
                                                  !.leadStatus = "142"]]
      [] n = "amo_nokey" ->
            [NoEvent EXCEPT !.src = "amocrm", !.owner = "s1",
                            !.update = "7"]
      [] n = "amo_noid" ->
            [NoEvent EXCEPT !.src = "amocrm", !.owner = "s2"]
      [] n = "amo_lost" ->
            [NoEvent EXCEPT !.src = "amocrm", !.owner = "zz", !.add = "7"]
      [] n = "amo_nosub" ->
            [NoEvent EXCEPT !.src = "amocrm", !.add = "7"]

\* the deliveries one behaviour mixes: the events of one of these pools
Pools == { {"lp", "lp_later"}, {"lp_nots"}, {"lp2"}, {"lp_noid"},
           {"amo", "amo_upd"}, {"amo_ct"},
           {"lp3_zz"}, {"lp3_sub"}, {"lp4"},
           {"lp_lost", "lp_noproj", "lp_bad",
            "amo_nokey", "amo_noid", "amo_lost", "amo_nosub"} }

\* the lead id looked for under leads[status] before leads[add]
ExtractLeadId_StatusFirst(e) ==
    IF Truthy(e.status) THEN e.status
    ELSE IF Truthy(e.add) THEN e.add
    ELSE IF Truthy(e.update) THEN e.update
    ELSE IF Truthy(e.delete) THEN e.delete
    ELSE UNDEF

\* the lead id of an AmoCRM payload: leads[add] / [status] / [update] /
\* [delete] [0][id], the first populated one
ExtractLeadId(e) ==
    IF Truthy(e.add) THEN e.add
    ELSE IF Truthy(e.status) THEN e.status
    ELSE IF Truthy(e.update) THEN e.update
    ELSE IF Truthy(e.delete) THEN e.delete
    ELSE UNDEF

\* a key without the timestamp component
generateWebhookKey_Default(userId, leadId, ruleId, timestamp) ==
    <<"webhook", userId, leadId, ruleId, "default">>

\* generateWebhookKey: webhook:{userId}:{leadId}:{ruleId}:{timestamp||'default'}
generateWebhookKey(userId, leadId, ruleId, timestamp) ==
    <<"webhook", userId, leadId, ruleId,
      IF timestamp = 0 THEN "default" ELSE ToString(timestamp)>>

\* dedup calls that pass the time stamp of the payload on both paths
DedupTimestamp_Always(e) == e.ts

\* the timestamp argument of the dedup calls: action_timestamp on the
\* LPTracker path, omitted on the AmoCRM path
DedupTimestamp(e) == IF e.src = "lptracker" THEN e.ts ELSE 0

\* a Redis glob `${prefix}*` over a key that starts with a user id
IsPrefix(p, s) == Len(p) <= Len(s) /\ SubSeq(s, 1, Len(p)) = p

(***************************************************************************)
(* WebhookService.executeActions: the loop over actions.list, each action  *)
(* in its own try/catch.  fails is the set of positions whose adapter call *)
(* raises.                                                                 *)
(***************************************************************************)
IsSyncAction(a) == a.type \in {"sync_to_amocrm", "sync_to_lptracker"}

RECURSIVE RunActions(_, _, _)
RunActions(list, i, fails) ==
    IF i > Len(list) THEN <<>>
    ELSE LET outcome == IF ~IsSyncAction(list[i]) THEN "unknown"
                        ELSE IF i \in fails THEN "failed"
                        ELSE "synced"
         IN  <<outcome>> \o RunActions(list, i + 1, fails)

\* executeActions leaving the loop at the first action of unknown type
executeActions_StopAtUnknown(actions, fails) ==
    IF actions.kind # "list" THEN <<>>
    ELSE LET out == RunActions(actions.list, 1, fails)
             bad == {i \in 1..Len(out) : out[i] = "unknown"}
         IN  IF bad = {} THEN out
             ELSE SubSeq(out, 1, CHOOSE i \in bad : \A j \in bad : i <= j)

\* executeActions leaving the loop at the first adapter call that raises
executeActions_AbortOnFailure(actions, fails) ==
    IF actions.kind # "list" THEN <<>>
    ELSE LET out == RunActions(actions.list, 1, fails)
             bad == {i \in 1..Len(out) : out[i] = "failed"}
         IN  IF bad = {} THEN out
             ELSE SubSeq(out, 1, CHOOSE i \in bad : \A j \in bad : i <= j)
executeActions(actions, fails) ==
    IF actions.kind # "list" THEN <<>>
    ELSE RunActions(actions.list, 1, fails)

\* a switch with the two services exchanged
AdapterOf_Swapped(a) ==
    IF a.type = "sync_to_amocrm" THEN "lpTrackerService.syncToLpTracker"
    ELSE IF a.type = "sync_to_lptracker" THEN "amoCrmService.syncToAmoCrm"
    ELSE "none"

\* the service the switch on action.type calls
AdapterOf(a) ==
    IF a.type = "sync_to_amocrm" THEN "amoCrmService.syncToAmoCrm"
    ELSE IF a.type = "sync_to_lptracker"
    THEN "lpTrackerService.syncToLpTracker"
    ELSE "none"

\* the adapter calls executeActions makes from action i on, in order: the
\* position of the action, the service called and the match strategy
\* passed, `action.searchBy || 'phone'`
RECURSIVE AdapterCalls(_, _)
AdapterCalls(actions, i) ==
    IF actions.kind # "list" \/ i > Len(actions.list) THEN <<>>
    ELSE (IF IsSyncAction(actions.list[i])
          THEN <<[pos |-> i, adapter |-> AdapterOf(actions.list[i]),
                  searchBy |-> OrElse(actions.list[i].searchBy, "phone")]>>
          ELSE <<>>) \o AdapterCalls(actions, i + 1)

SyncPositions(actions) ==
    IF actions.kind # "list" THEN {}
    ELSE {i \in 1..Len(actions.list) : IsSyncAction(actions.list[i])}

(***************************************************************************)
(* State.                                                                  *)
(***************************************************************************)
VARIABLES
    jobs,      \* the webhook-processing queue: one record per job added
    wk,        \* per worker slot: the job it executes and where it stands
    dedup,     \* Redis, webhook:* keys: key -> seconds left to live
    rcache,    \* Redis, sync_rules:* keys: user -> seconds left to live
    ruleExec,  \* storage: execution counter of every rule
    hist,      \* per dedup key: what has happened under it (history)
    faults,    \* failing calls of external collaborators so far
    flaky,     \* the collaborator that is unreliable in this behaviour
    probe,     \* one call of checkConditions or isWebhookRelevant: its
               \* arguments and its result
    ret,       \* how the latest call of handleAmoCrmWebhook or
               \* handleLpTrackerWebhook ended, and what it logged
    cache,     \* Redis, sync_rules:* settings:* metadata:* keys: key -> the
               \* JSON text stored, its seconds left to live and (history)
               \* the seconds since it was stored and the value stored
    deleted,   \* storage: the rules deleted from the sync rules table
    calls,     \* per caller: its call of a cached getter and where it stands
    inv,       \* the call of invalidateUserCache and where it stands
    requestCounts, \* security middleware: per client IP the count and the
               \* reset time of the rate limiter's record
    clock,     \* Date.now(), in milliseconds since the server started
    reference, \* per client IP and limiter (history): the window a limiter
               \* with a record of its own would have open, the requests
               \* made and the requests passed on in it
    response   \* the latest request to a rate-limited path: whether it was
               \* passed on and (history) whether a limiter with a record
               \* of its own would have passed it on

optimizer == <<cache, deleted, calls, inv>>
security == <<requestCounts, clock, reference, response>>
pipeline ==
    <<jobs, wk, dedup, rcache, ruleExec, hist, faults, flaky, ret, optimizer,
      security>>
vars ==
    <<jobs, wk, dedup, rcache, ruleExec, hist, faults, flaky, probe, ret,
      cache, deleted, calls, inv, requestCounts, clock, reference, response>>

\* the external collaborators whose calls may fail
Collaborators == {"redis", "queue", "db", "api", "adapter"}

\* the outcomes (TRUE: the call succeeds) a call of collaborator c may have
Outcomes(c) ==
    IF flaky = c /\ faults < MaxFaults THEN {TRUE, FALSE} ELSE {TRUE}
Cost(ok) == IF ok THEN 0 ELSE 1

\* a worker slot: res lists the outcome of every candidate rule the loop
\* has left behind, acts the outcome of every action of the last
\* executeActions, sent the adapter calls it made, contacts the related
\* contacts whose details were fetched (contactsDetails), replay tells that
\* the rule at hand passed the dedup lookup WEBHOOK_DEDUP_TTL seconds or
\* more after the key's last mark
Idle == [job |-> 0, pc |-> "idle", userId |-> NoUser, leadId |-> UNDEF,
         cands |-> <<>>, idx |-> 0, res |-> <<>>, acts |-> <<>>,
         sent |-> <<>>, contacts |-> <<>>,
         replay |-> FALSE, routine |-> "-"]

\* the topic handleAmoCrmWebhook / handleLpTrackerWebhook adds its jobs to
TopicOf(src) ==
    IF src = "amocrm" THEN "amocrm-webhook" ELSE "lptracker-webhook"

\* the routine the processor of a topic calls
ProcessorOf(topic) ==
    IF topic = "amocrm-webhook" THEN "processAmoCrmWebhookDirect"
    ELSE "processLpTrackerWebhookDirect"

\* the options the handlers pass to webhookQueue.add
JobOptions == [attempts |-> JobAttempts,
               backoff |-> [type |-> "exponential", delay |-> BackoffDelay],
               removeOnComplete |-> RemoveOnComplete,
               removeOnFail |-> RemoveOnFail]

\* the job webhookQueue.add creates; Bull numbers the jobs of a queue
NewJob(n) == [ev |-> n, status |-> "waiting", attempts |-> 0, warns |-> 0,
              why |-> "-", fetchFailed |-> FALSE,
              id |-> Len(jobs) + 1, topic |-> TopicOf(Event(n).src),
              opts |-> JobOptions, doneAt |-> 0]

\* a log sink whose call raises when the entry could not be written
logService_Raises(written) == written

\* logService.info / warning / error(userId, message, details, source):
\* whether the awaited call returns to its caller; it does, whether or not
\* the entry was written
logService(written) == TRUE

\* what the log holds of an entry of the level given: the entry, or
\* nothing when the sink could not write it
Logged(level, written) == IF written THEN level ELSE "lost"

\* no call of a submit handler yet
NoReturn == [kind |-> "none", id |-> 0, log |-> "-"]

\* the history of a dedup key: executeActions runs, marks and counter
\* increments made under it, seconds since the last mark (capped), whether
\* WEBHOOK_DEDUP_TTL seconds ever passed after a mark, whether a flush
\* removed the key, whether a Redis call on the key failed
NewHist == [disp |-> 0, marks |-> 0, counts |-> 0, age |-> 0,
            late |-> FALSE, flushed |-> FALSE, fault |-> FALSE]

Hist(k) == IF k \in DOMAIN hist THEN hist[k] ELSE NewHist
HistWith(k, h) == [x \in DOMAIN hist \cup {k} |-> IF x = k THEN h ELSE hist[x]]

\* no call of checkConditions (done) or isWebhookRelevant (relDone) under
\* observation
NoProbe == [conds |-> CondList(UNDEF, <<>>), ctx |-> NoCtx, done |-> FALSE,
            upd |-> [isList |-> FALSE, fields |-> <<>>],
            actions |-> ActionList(<<>>), relDone |-> FALSE, out |-> FALSE]

\* JavaScript values of the configuration: null, an array of rule ids, an
\* object (a settings row, the data of a metadata row) named by its row
JsNull == [js |-> "null", of |-> <<>>]
JsArray(items) == [js |-> "array", of |-> items]
JsObject(row) == [js |-> "object", of |-> <<row>>]

\* the callers of the cached getters: job executions running side by side
Callers == {"a", "b"}

\* a call of getCachedSyncRules / getCachedSettings / getCachedMetadata:
\* val is the value read from the storage, out the value returned; read
\* (the storage was read), age (of the entry a hit returned) and late (the
\* call returned after an invalidation that followed the latest change of
\* the rules) are history
NoKey == [kind |-> "", type |-> "", user |-> NoUser, sub |-> ""]
IdleCall == [pc |-> "idle", key |-> NoKey, val |-> JsNull, out |-> JsNull,
             read |-> FALSE, age |-> -1, late |-> FALSE]

\* the call of invalidateUserCache: settled (history) says that a call begun
\* after the latest change of the rules has returned
IdleInv == [pc |-> "idle", user |-> NoUser, after |-> FALSE,
            settled |-> FALSE]

InitOptimizer ==
    /\ cache = [k \in {} |-> 0]
    /\ deleted = {}
    /\ calls = [c \in Callers |-> IdleCall]
    /\ inv = IdleInv

\* the client addresses requests come from (req.ip)
ClientIps == {"10.0.0.1"}

\* the paths the limiters are mounted on
LimitedPaths == {"/api/", "/webhook/"}

\* no window open, no request made or passed on in it
NoWindow == [opened |-> -1, asked |-> 0, passed |-> 0]

\* no request to a rate-limited path yet
NoResponse == [ip |-> "-", path |-> "-", passed |-> TRUE,
               independent |-> TRUE]

InitSecurity ==
    /\ requestCounts = [ip \in {} |-> 0]
    /\ clock = 0
    /\ reference = [ip \in ClientIps |-> [p \in LimitedPaths |-> NoWindow]]
    /\ response = NoResponse

Init ==
    /\ probe = NoProbe
    /\ ret = NoReturn
    /\ jobs = <<>>
    /\ wk = [w \in Workers |-> Idle]
    /\ dedup = [k \in {} |-> 0]
    /\ rcache = [u \in {} |-> 0]
    /\ ruleExec = [r \in RuleIds |-> 0]
    /\ hist = [k \in {} |-> NewHist]
    /\ faults = 0
    /\ flaky \in Collaborators \cup {"none"}
    /\ InitOptimizer
    /\ InitSecurity

EvOf(w) == Event(jobs[wk[w].job].ev)
RuleOf(w) == Rule(wk[w].cands[wk[w].idx])
\* the dedup key of the i-th candidate rule of the worker's job
KeyAt(w, i) == generateWebhookKey(wk[w].userId, wk[w].leadId,
                                  wk[w].cands[i], DedupTimestamp(EvOf(w)))
KeyOf(w) == KeyAt(w, wk[w].idx)

(***************************************************************************)
(* RedisCache                                                              *)
(***************************************************************************)
\* a lookup that takes a failing store for a key that is there
cacheExists_FailClosed(key, redisOk) == ~redisOk \/ key \in DOMAIN dedup

\* cache.exists(key): false when the Redis call fails
cacheExists(key, redisOk) == redisOk /\ key \in DOMAIN dedup

\* cache.setWithTTL taking the seconds for milliseconds (PSETEX semantics
\* reversed): the key lives a thousand times too long
cacheSetWithTTL_Millis(key, ttl, redisOk) ==
    IF redisOk
    THEN [k \in DOMAIN dedup \cup {key} |->
            IF k = key THEN 1000 * ttl ELSE dedup[k]]
    ELSE dedup

\* a store in which the write of a key displaces the keys written before
cacheSetWithTTL_Displaces(key, ttl, redisOk) ==
    IF redisOk THEN [k \in {key} |-> ttl] ELSE dedup

\* cache.setWithTTL(key, value, ttl): SETEX; a failing call is swallowed
cacheSetWithTTL(key, ttl, redisOk) ==
    IF redisOk
    THEN [k \in DOMAIN dedup \cup {key} |-> IF k = key THEN ttl ELSE dedup[k]]
    ELSE dedup

(***************************************************************************)
(* The dedup store of WebhookService                                       *)
(***************************************************************************)
\* isWebhookAlreadyProcessed looking the key up without its rule id
isWebhookAlreadyProcessed_NoRule(userId, leadId, ruleId, timestamp, redisOk) ==
    cacheExists(generateWebhookKey(userId, leadId, 0, timestamp), redisOk)

isWebhookAlreadyProcessed(userId, leadId, ruleId, timestamp, redisOk) ==
    cacheExists(generateWebhookKey(userId, leadId, ruleId, timestamp), redisOk)

\* markWebhookProcessedInRedis writing the key without the action timestamp
markWebhookProcessedInRedis_NoTimestamp(userId, leadId, ruleId, timestamp, redisOk) ==
    cacheSetWithTTL(generateWebhookKey(userId, leadId, ruleId, 0),
                    WEBHOOK_DEDUP_TTL, redisOk)

\* the webhook:* keys after markWebhookProcessedInRedis
markWebhookProcessedInRedis(userId, leadId, ruleId, timestamp, redisOk) ==
    cacheSetWithTTL(generateWebhookKey(userId, leadId, ruleId, timestamp),
                    WEBHOOK_DEDUP_TTL, redisOk)

(***************************************************************************)
(* The queue: handleAmoCrmWebhook / handleLpTrackerWebhook add a job, a    *)
(* worker slot takes a waiting job, a raising handler fails the attempt.   *)
(***************************************************************************)
\* handleAmoCrmWebhook / handleLpTrackerWebhook, by the source of event n,
\* while the queue holds fewer than cap jobs
Enqueue(n, cap) ==
    /\ Len(jobs) < cap
    /\ \E P \in Pools :
          n \in P /\ \A j \in 1..Len(jobs) : jobs[j].ev \in P
    /\ \E ok \in Outcomes("queue"), written \in Outcomes("log") :
        /\ jobs' = IF ok THEN Append(jobs, NewJob(n)) ELSE jobs
        /\ faults' = faults + Cost(ok) + Cost(written)
        /\ ret' = IF ok /\ logService(written)
                  THEN [kind |-> "returned", id |-> NewJob(n).id,
                        log |-> Logged("info", written)]
                  ELSE [kind |-> "raised", id |-> 0,
                        log |-> Logged("error", written)]
    /\ UNCHANGED <<wk, dedup, rcache, ruleExec, hist, flaky, probe, optimizer,
                   security>>

\* a submit that raises when its log entry was not written
Submit_LogFatal(n) ==
    /\ Len(jobs) < MaxJobs
    /\ \E P \in Pools :
          n \in P /\ \A j \in 1..Len(jobs) : jobs[j].ev \in P
    /\ \E ok \in Outcomes("queue"), written \in Outcomes("log") :
        /\ jobs' = IF ok THEN Append(jobs, NewJob(n)) ELSE jobs
        /\ faults' = faults + Cost(ok) + Cost(written)
        /\ ret' = IF ok /\ written
                  THEN [kind |-> "returned", id |-> NewJob(n).id,
                        log |-> Logged("info", written)]
                  ELSE [kind |-> "raised", id |-> 0,
                        log |-> Logged("error", written)]
    /\ UNCHANGED <<wk, dedup, rcache, ruleExec, hist, flaky, probe, optimizer,
                   security>>

\* a submit that swallows the error of webhookQueue.add
Submit_Swallows(n) ==
    /\ Len(jobs) < MaxJobs
    /\ \E P \in Pools :
          n \in P /\ \A j \in 1..Len(jobs) : jobs[j].ev \in P
    /\ \E ok \in Outcomes("queue"), written \in Outcomes("log") :
        /\ jobs' = IF ok THEN Append(jobs, NewJob(n)) ELSE jobs
        /\ faults' = faults + Cost(ok) + Cost(written)
        /\ ret' = [kind |-> "returned", id |-> NewJob(n).id,
                   log |-> Logged(IF ok /\ logService(written)
                                  THEN "info" ELSE "error", written)]
    /\ UNCHANGED <<wk, dedup, rcache, ruleExec, hist, flaky, probe, optimizer,
                   security>>

\* a submit that adds every job to the topic of AmoCRM
Submit_OneTopic(n) ==
    /\ Len(jobs) < MaxJobs
    /\ \E P \in Pools :
          n \in P /\ \A j \in 1..Len(jobs) : jobs[j].ev \in P
    /\ \E ok \in Outcomes("queue"), written \in Outcomes("log") :
        /\ jobs' = IF ok THEN Append(jobs, [NewJob(n) EXCEPT
                                            !.topic = "amocrm-webhook"]) ELSE jobs
        /\ faults' = faults + Cost(ok) + Cost(written)
        /\ ret' = IF ok /\ logService(written)
                  THEN [kind |-> "returned", id |-> NewJob(n).id,
                        log |-> Logged("info", written)]
                  ELSE [kind |-> "raised", id |-> 0,
                        log |-> Logged("error", written)]
    /\ UNCHANGED <<wk, dedup, rcache, ruleExec, hist, flaky, probe, optimizer,
                   security>>

Submit(n) == Enqueue(n, MaxJobs)

\* a slot that takes a job without the attempt being counted
Take_Uncounted(w, j) ==
    /\ wk[w].pc = "idle"
    /\ jobs[j].status = "waiting"
    /\ jobs' = [jobs EXCEPT ![j].status = "active"]
    /\ wk' = [wk EXCEPT ![w] = [Idle EXCEPT
                                  !.job = j, !.pc = "start",
                                  !.routine = ProcessorOf(jobs[j].topic)]]
    /\ UNCHANGED <<dedup, rcache, ruleExec, hist, faults, flaky, probe,
                   ret, optimizer, security>>

\* a free slot takes a waiting job: the jobs not yet attempted first in,
\* first out; a job to retry comes back from its backoff delay at any time
Take(w, j) ==
    /\ wk[w].pc = "idle"
    /\ jobs[j].status = "waiting"
    /\ jobs[j].attempts = 0
          => \A i \in 1..(j - 1) :
                ~(jobs[i].status = "waiting" /\ jobs[i].attempts = 0)
    /\ jobs' = [jobs EXCEPT ![j].status = "active", ![j].attempts = @ + 1]
    /\ wk' = [wk EXCEPT ![w] = [Idle EXCEPT
                                  !.job = j, !.pc = "start",
                                  !.routine = ProcessorOf(jobs[j].topic)]]
    /\ UNCHANGED <<dedup, rcache, ruleExec, hist, faults, flaky, probe,
                   ret, optimizer, security>>

\* the place in the order of finishing of the next job that ends as kind
\* (completed or failed)
Stamp(kind) ==
    LET S == {jobs[j].doneAt : j \in {i \in 1..Len(jobs) :
                                         jobs[i].status = kind}}
    IN  IF S = {} THEN 1 ELSE 1 + CHOOSE m \in S : \A x \in S : x <= m

\* a queue that keeps no finished job
KeepLatest_None(js, j, kind, limit) ==
    [i \in 1..Len(js) |->
        IF js[i].status = kind \/ i = j
        THEN [js[i] EXCEPT !.status = "removed"] ELSE js[i]]

\* removeOnComplete / removeOnFail: job j ends as kind and Bull keeps the
\* limit jobs that ended as kind last
KeepLatest(js, j, kind, limit) ==
    LET at == Stamp(kind)
    IN  [i \in 1..Len(js) |->
            IF i = j
            THEN [js[i] EXCEPT !.status = kind, !.doneAt = at]
            ELSE IF js[i].status = kind /\ js[i].doneAt + limit <= at
            THEN [js[i] EXCEPT !.status = "removed"]
            ELSE js[i]]

\* getQueueStats, webhook part: the sizes of the queue's sets, zeros when
\* the queue does not answer
getQueueStats(queueOk) ==
    LET Size(kind) == Cardinality({j \in 1..Len(jobs) :
                                      jobs[j].status = kind})
    IN  IF queueOk
        THEN [waiting |-> Size("waiting"), active |-> Size("active"),
              completed |-> Size("completed"), failed |-> Size("failed")]
        ELSE [waiting |-> 0, active |-> 0, completed |-> 0, failed |-> 0]

\* the handler returned: Bull moves the job to completed
Completed(w, why, warnings) ==
    /\ jobs' = KeepLatest([jobs EXCEPT ![wk[w].job].why = why,
                                       ![wk[w].job].warns = @ + warnings],
                          wk[w].job, "completed",
                          jobs[wk[w].job].opts.removeOnComplete)
    /\ wk' = [wk EXCEPT ![w] = Idle]

\* a queue that retries a job whatever the attempts made
Raised_Forever(w, why) ==
    /\ jobs' = [jobs EXCEPT ![wk[w].job].status = "waiting",
                            ![wk[w].job].why = why]
    /\ wk' = [wk EXCEPT ![w] = Idle]

\* the handler raised: Bull retries the job until attempts are used up
Raised(w, why) ==
    /\ jobs' = IF jobs[wk[w].job].attempts < jobs[wk[w].job].opts.attempts
               THEN [jobs EXCEPT ![wk[w].job].status = "waiting",
                                 ![wk[w].job].why = why]
               ELSE KeepLatest([jobs EXCEPT ![wk[w].job].why = why],
                               wk[w].job, "failed",
                               jobs[wk[w].job].opts.removeOnFail)
    /\ wk' = [wk EXCEPT ![w] = Idle]

(***************************************************************************)
(* processAmoCrmWebhookDirect / processLpTrackerWebhookDirect, up to the   *)
(* rule loop.                                                              *)
(***************************************************************************)
\* AmoCRM: the log entry of the start, subdomain, owner, lead id; an error
\* raised here reaches the catch of the routine, which throws it again
StartAmo(w) ==
    /\ wk[w].pc = "start"
    /\ wk[w].routine = "processAmoCrmWebhookDirect"
    /\ UNCHANGED <<dedup, rcache, ruleExec, hist, flaky, probe, ret,
                   optimizer, security>>
    /\ \E written \in Outcomes("log") :
       IF ~logService(written)
       THEN Raised(w, "threw") /\ faults' = faults + Cost(written)
       ELSE IF ~Truthy(EvOf(w).owner)
       THEN Completed(w, "noOwner", 1) /\ faults' = faults + Cost(written)
       ELSE \E dbOk \in Outcomes("db") :
            LET userId == findUserBySubdomain(EvOf(w).owner, dbOk)
                leadId == ExtractLeadId(EvOf(w))
            IN  /\ faults' = faults + Cost(dbOk) + Cost(written)
                /\ IF userId = NoUser THEN Completed(w, "noOwner", 1)
                   ELSE IF ~Truthy(leadId) THEN Completed(w, "noId", 1)
                   ELSE /\ wk' = [wk EXCEPT ![w].pc = "fetch",
                                            ![w].userId = userId,
                                            ![w].leadId = leadId]
                        /\ UNCHANGED jobs

\* LPTracker: parse, the log entry of the parsed data, project id, owner;
\* the lead id is String(webhookData.id); an error raised by a log call
\* reaches the catch of the routine, which throws it again
StartLp(w) ==
    /\ wk[w].pc = "start"
    /\ wk[w].routine = "processLpTrackerWebhookDirect"
    /\ UNCHANGED <<dedup, rcache, ruleExec, hist, flaky, probe, ret,
                   optimizer, security>>
    /\ \E written \in Outcomes("log") :
       IF ~logService(written)
       THEN Raised(w, "threw") /\ faults' = faults + Cost(written)
       ELSE IF ~EvOf(w).parseOk
       THEN Completed(w, "parseError", 0) /\ faults' = faults + Cost(written)
       ELSE IF ~Truthy(EvOf(w).owner)
       THEN Completed(w, "noOwner", 1) /\ faults' = faults + Cost(written)
       ELSE \E dbOk \in Outcomes("db") :
            LET userId == findUserByProjectId(EvOf(w).owner, dbOk)
            IN  /\ faults' = faults + Cost(dbOk) + Cost(written)
                /\ IF userId = NoUser THEN Completed(w, "noOwner", 1)
                   ELSE /\ wk' = [wk EXCEPT ![w].pc = "load",
                                            ![w].userId = userId,
                                            ![w].leadId = EvOf(w).id]
                        /\ UNCHANGED jobs

\* getLeadDetails: raises when the user's settings lack the subdomain or the
\* API key, or when the response is not ok
LeadFetchOk(userId, apiOk) ==
    /\ apiOk
    /\ \E i \in 1..Len(AmoSettings) :
          /\ AmoSettings[i].userId = userId
          /\ Truthy(AmoSettings[i].subdomain)
          /\ Truthy(AmoSettings[i].apiKey)

\* what becomes of the job when getLeadDetails raises: the catch around the
\* enrichment logs the error and the handler returns
AfterFetchError(w) ==
    /\ jobs' = KeepLatest([jobs EXCEPT ![wk[w].job].why = "fetchError",
                                       ![wk[w].job].fetchFailed = TRUE],
                          wk[w].job, "completed",
                          jobs[wk[w].job].opts.removeOnComplete)
    /\ wk' = [wk EXCEPT ![w] = Idle]

\* a contact loop that ends at the first contact whose fetch raises
FetchContacts_StopAtFailure(n, fails) ==
    SelectSeq([i \in 1..n |-> i], LAMBDA i : \A f \in fails : i < f)

\* the loop over leadDetails._embedded.contacts: contactsDetails holds, in
\* order, the contacts whose getContactDetails did not raise (fails: the
\* positions of those whose call raises; each is logged as a warning)
FetchContacts(n, fails) ==
    SelectSeq([i \in 1..n |-> i], LAMBDA i : i \notin fails)

\* AmoCRM: the enrichment try/catch: getLeadDetails, then the contacts
FetchLead(w) ==
    /\ wk[w].pc = "fetch"
    /\ UNCHANGED <<dedup, rcache, ruleExec, hist, flaky, probe, ret,
                   optimizer, security>>
    /\ \E apiOk \in Outcomes("api") :
        IF LeadFetchOk(wk[w].userId, apiOk)
        THEN \E fails \in SUBSET (1..EvOf(w).contacts) :
                /\ fails # {} => flaky = "api"
                /\ faults + Cardinality(fails) <= MaxFaults
                /\ faults' = faults + Cardinality(fails)
                /\ wk' = [wk EXCEPT
                            ![w].pc = "load",
                            ![w].contacts =
                                FetchContacts(EvOf(w).contacts, fails)]
                /\ jobs' = [jobs EXCEPT
                              ![wk[w].job].warns = @ + Cardinality(fails)]
        ELSE /\ faults' = faults + Cost(apiOk)
             /\ AfterFetchError(w)

\* the candidate rules of processLeadRules
AmoCandidates(userId) ==
    SelectSeq(getSyncRules(userId),
              LAMBDA id : Rule(id).webhookSource = "amocrm"
                          /\ Rule(id).isActive)

\* the candidate rules of processLpTrackerWebhookDirect
LpCandidates(userId) == getSyncRules(userId)

\* entering the rule loop with the candidates cs
EnterLoop(w, cs) ==
    IF cs = <<>>
    THEN Completed(w, "rules", 0)
    ELSE /\ wk' = [wk EXCEPT ![w].pc = "rule", ![w].cands = cs, ![w].idx = 1]
         /\ UNCHANGED jobs

\* AmoCRM: processLeadRules reads the rules from the storage
LoadRulesAmo(w) ==
    /\ wk[w].pc = "load"
    /\ wk[w].routine = "processAmoCrmWebhookDirect"
    /\ UNCHANGED <<dedup, rcache, ruleExec, hist, flaky, probe, ret,
                   optimizer, security>>
    /\ \E dbOk \in Outcomes("db") :
        /\ faults' = faults + Cost(dbOk)
        /\ IF dbOk THEN EnterLoop(w, AmoCandidates(wk[w].userId))
           ELSE Completed(w, "rulesError", 0)

\* LPTracker: getCachedSyncRules
LoadRulesLp(w) ==
    /\ wk[w].pc = "load"
    /\ wk[w].routine = "processLpTrackerWebhookDirect"
    /\ UNCHANGED <<dedup, ruleExec, hist, flaky, probe, ret, optimizer,
                   security>>
    /\ \E getOk \in Outcomes("redis") :
        IF getOk /\ wk[w].userId \in DOMAIN rcache
        THEN /\ faults' = faults
             /\ UNCHANGED rcache
             /\ EnterLoop(w, LpCandidates(wk[w].userId))
        ELSE \E dbOk \in Outcomes("db"), setOk \in Outcomes("redis") :
             /\ dbOk \/ setOk
             /\ faults + Cost(getOk) + Cost(dbOk) + Cost(setOk) <= MaxFaults
             /\ faults' = faults + Cost(getOk) + Cost(dbOk) + Cost(setOk)
             /\ IF ~dbOk
                THEN Raised(w, "threw") /\ UNCHANGED rcache
                ELSE /\ rcache' =
                          IF setOk
                          THEN [u \in DOMAIN rcache \cup {wk[w].userId} |->
                                  IF u = wk[w].userId THEN RULES_CACHE_TTL
                                  ELSE rcache[u]]
                          ELSE rcache
                     /\ EnterLoop(w, LpCandidates(wk[w].userId))

(***************************************************************************)
(* The rule loop of processLpTrackerWebhookDirect and processLeadRules:    *)
(* per candidate rule checkConditions, the dedup lookup, (LPTracker) the   *)
(* relevance filter, executeActions, the dedup mark, the counter.          *)
(***************************************************************************)
\* the loop moves on to the next candidate, or ends and the handler returns
NextRule(w, outcome) ==
    IF wk[w].idx < Len(wk[w].cands)
    THEN /\ wk' = [wk EXCEPT ![w].pc = "rule", ![w].idx = @ + 1,
                             ![w].res = Append(@, outcome),
                             ![w].acts = <<>>, ![w].sent = <<>>,
                             ![w].replay = FALSE]
         /\ UNCHANGED jobs
    ELSE Completed(w, "rules", 0)

\* a rule's raised error escaping the loop: the handler raises
AfterRuleError_Escapes(w) == Raised(w, "threw")

\* what a rule's raised error leads to: the catch of the loop body logs it
\* and the loop goes on
AfterRuleError(w) == NextRule(w, "error")

\* a rule loop that takes every candidate rule for a matching one
RuleMatches_Always(w) == TRUE

\* whether the rule at hand applies to the event: checkConditions
RuleMatches(w) == checkConditions(RuleOf(w).conditions, EvOf(w).ctx)

\* the rule loop of LPTracker without its relevance filter
RulePassesFilter_NoFilter(w) == TRUE

\* whether the relevance filter lets the rule through (LPTracker only)
RulePassesFilter(w) ==
    \/ wk[w].routine = "processAmoCrmWebhookDirect"
    \/ isWebhookRelevant(EvOf(w).upd, RuleOf(w))

\* the body of the loop up to executeActions; every branch writes a log
\* entry, and an error raised by that call is caught by the catch of the
\* loop body like any other error of the rule
RuleCheck(w) ==
    /\ wk[w].pc = "rule"
    /\ UNCHANGED <<dedup, rcache, ruleExec, flaky, probe, ret, optimizer,
                   security>>
    /\ \E written \in Outcomes("log") :
       IF ~logService(written)
       THEN /\ AfterRuleError(w)
            /\ faults' = faults + Cost(written)
            /\ UNCHANGED hist
       ELSE IF ~RuleMatches(w)
       THEN /\ NextRule(w, "nomatch")
            /\ faults' = faults + Cost(written)
            /\ UNCHANGED hist
       ELSE \E redisOk \in Outcomes("redis") :
            LET k == KeyOf(w)
                h == Hist(k)
            IN  /\ faults' = faults + Cost(redisOk) + Cost(written)
                /\ hist' = IF redisOk THEN hist
                           ELSE HistWith(k, [h EXCEPT !.fault = TRUE])
                /\ IF isWebhookAlreadyProcessed(wk[w].userId, wk[w].leadId,
                                                RuleOf(w).id,
                                                DedupTimestamp(EvOf(w)),
                                                redisOk)
                   THEN NextRule(w, "duplicate")
                   ELSE IF ~RulePassesFilter(w)
                   THEN NextRule(w, "irrelevant")
                   ELSE /\ wk' = [wk EXCEPT
                                    ![w].pc = "dispatch",
                                    ![w].replay =
                                        (h.marks > 0
                                         /\ h.age >= WEBHOOK_DEDUP_TTL)]
                        /\ UNCHANGED jobs

\* executeActions(rule.actions, ...): every adapter call may raise
Dispatch(w) ==
    /\ wk[w].pc = "dispatch"
    /\ UNCHANGED <<jobs, dedup, rcache, ruleExec, flaky, probe, ret,
                   optimizer, security>>
    /\ \E fails \in SUBSET SyncPositions(RuleOf(w).actions) :
        /\ fails # {} => flaky = "adapter"
        /\ faults + Cardinality(fails) <= MaxFaults
        /\ faults' = faults + Cardinality(fails)
        /\ wk' = [wk EXCEPT ![w].pc = "mark",
                            ![w].acts = executeActions(RuleOf(w).actions, fails),
                            ![w].sent = AdapterCalls(RuleOf(w).actions, 1)]
        /\ hist' = HistWith(KeyOf(w), [Hist(KeyOf(w)) EXCEPT !.disp = @ + 1])

\* a loop body that marks the key before it calls executeActions
Mark_BeforeDispatch(w) ==
    /\ wk[w].pc = "dispatch"
    /\ KeyOf(w) \notin DOMAIN dedup
    /\ UNCHANGED <<jobs, wk, rcache, ruleExec, flaky, probe, ret, optimizer,
                   security>>
    /\ \E redisOk \in Outcomes("redis") :
        /\ faults' = faults + Cost(redisOk)
        /\ dedup' = markWebhookProcessedInRedis(wk[w].userId, wk[w].leadId,
                                                RuleOf(w).id,
                                                DedupTimestamp(EvOf(w)),
                                                redisOk)
        /\ hist' = HistWith(KeyOf(w),
                            [Hist(KeyOf(w)) EXCEPT !.marks = @ + 1,
                                                   !.age = 0,
                                                   !.fault = @ \/ ~redisOk])

\* markWebhookProcessedInRedis
Mark(w) ==
    /\ wk[w].pc = "mark"
    /\ UNCHANGED <<jobs, rcache, ruleExec, flaky, probe, ret, optimizer,
                   security>>
    /\ \E redisOk \in Outcomes("redis") :
        /\ faults' = faults + Cost(redisOk)
        /\ dedup' = markWebhookProcessedInRedis(wk[w].userId, wk[w].leadId,
                                                RuleOf(w).id,
                                                DedupTimestamp(EvOf(w)),
                                                redisOk)
        /\ wk' = [wk EXCEPT ![w].pc = "count"]
        /\ hist' = HistWith(KeyOf(w),
                            [Hist(KeyOf(w)) EXCEPT !.marks = @ + 1,
                                                   !.age = 0,
                                                   !.fault = @ \/ ~redisOk])

\* storage.incrementRuleExecution(rule.id)
Count(w) ==
    /\ wk[w].pc = "count"
    /\ UNCHANGED <<dedup, rcache, flaky, probe, ret, optimizer, security>>
    /\ \E dbOk \in Outcomes("db") :
        /\ faults' = faults + Cost(dbOk)
        /\ ruleExec' = IF dbOk
                       THEN [ruleExec EXCEPT ![wk[w].cands[wk[w].idx]] = @ + 1]
                       ELSE ruleExec
        /\ hist' = IF dbOk
                   THEN HistWith(KeyOf(w),
                                 [Hist(KeyOf(w)) EXCEPT !.counts = @ + 1])
                   ELSE hist
        /\ IF dbOk THEN NextRule(w, "counted") ELSE AfterRuleError(w)

(***************************************************************************)
(* Time and the cache flushes of PerformanceOptimizer.                     *)
(***************************************************************************)
\* TickStep seconds pass: Redis expires the keys whose time to live ran out
Tick ==
    /\ dedup' = [k \in {x \in DOMAIN dedup : dedup[x] > TickStep} |->
                   dedup[k] - TickStep]
    /\ rcache' = [u \in {x \in DOMAIN rcache : rcache[x] > TickStep} |->
                   rcache[u] - TickStep]
    /\ hist' = [k \in DOMAIN hist |->
                 IF hist[k].marks = 0 THEN hist[k]
                 ELSE LET a == IF hist[k].age + TickStep >= WEBHOOK_DEDUP_TTL
                               THEN WEBHOOK_DEDUP_TTL
                               ELSE hist[k].age + TickStep
                      IN  [hist[k] EXCEPT !.age = a,
                                          !.late = @ \/ a >= WEBHOOK_DEDUP_TTL]]
    /\ cache' = [k \in {x \in DOMAIN cache : cache[x].left > TickStep} |->
                   [cache[k] EXCEPT !.left = @ - TickStep,
                                    !.age = @ + TickStep]]
    /\ <<dedup', rcache', hist', cache'>> # <<dedup, rcache, hist, cache>>
    /\ UNCHANGED <<jobs, wk, ruleExec, faults, flaky, probe, ret, deleted,
                   calls, inv, security>>

\* the keys flushPattern(`webhook:${userId}*`) deletes
FlushedKeys(userId) == {k \in DOMAIN dedup : IsPrefix(userId, k[2])}

\* the users whose entry flushPattern(`sync_rules:${userId}*`) deletes
FlushedRules(userId) == {u \in DOMAIN rcache : IsPrefix(userId, u)}

Flush(keys, users) ==
    /\ dedup' = [k \in DOMAIN dedup \ keys |-> dedup[k]]
    /\ rcache' = [u \in DOMAIN rcache \ users |-> rcache[u]]
    /\ hist' = [k \in DOMAIN hist |->
                 IF k \in keys THEN [hist[k] EXCEPT !.flushed = TRUE]
                 ELSE hist[k]]
    /\ UNCHANGED <<jobs, wk, ruleExec, faults, flaky, probe, ret, optimizer,
                   security>>

\* invalidateUserCache(userId)
InvalidateUserCache(userId) ==
    /\ FlushedKeys(userId) \cup FlushedRules(userId) # {}
    /\ Flush(FlushedKeys(userId), FlushedRules(userId))

\* clearAllCaches()
ClearAllCaches ==
    /\ DOMAIN dedup \cup DOMAIN rcache # {}
    /\ Flush(DOMAIN dedup, DOMAIN rcache)

(***************************************************************************)
(* The system.  Spec follows the deliveries through one worker slot, one   *)
(* job at a time, with an unreliable collaborator; SpecConc follows two    *)
(* slots that run jobs concurrently, with reliable collaborators.          *)
(***************************************************************************)
WorkerStep(w) ==
    \/ \E j \in 1..Len(jobs) : Take(w, j)
    \/ StartAmo(w)
    \/ StartLp(w)
    \/ FetchLead(w)
    \/ LoadRulesAmo(w)
    \/ LoadRulesLp(w)
    \/ RuleCheck(w)
    \/ Dispatch(w)
    \/ Mark(w)
    \/ Count(w)

Environment ==
    \/ \E n \in EventNames : Submit(n)
    \/ Tick
    \/ \E u \in Users : InvalidateUserCache(u)
    \/ ClearAllCaches

Next == WorkerStep("w1") \/ Environment

Spec == Init /\ [][Next]_vars

InitConc == Init /\ flaky = "none"

NextConc == (\E w \in Workers : WorkerStep(w)) \/ Environment

SpecConc == InitConc /\ [][NextConc]_vars

(***************************************************************************)
(* The processors of the queue on their own: whatever the routine of a     *)
(* job does, the handler either returns (the job is completed) or raises   *)
(* (the catch logs and throws again, Bull retries per the job's options).  *)
(* A free slot takes a waiting job and a handler ends.                     *)
(***************************************************************************)
HandlerReturns(w) ==
    /\ wk[w].pc = "start"
    /\ Completed(w, "returned", 0)
    /\ UNCHANGED <<dedup, rcache, ruleExec, hist, faults, flaky, probe,
                   ret, optimizer, security>>

HandlerRaises(w) ==
    /\ wk[w].pc = "start"
    /\ Raised(w, "threw")
    /\ UNCHANGED <<dedup, rcache, ruleExec, hist, faults, flaky, probe,
                   ret, optimizer, security>>

ProcessorStep(w) ==
    \/ \E j \in 1..Len(jobs) : Take(w, j)
    \/ HandlerReturns(w)
    \/ HandlerRaises(w)

\* one payload per topic: the processors do not look into the payload
RetryEvents == {"lp", "amo"}

NextRetry ==
    \/ \E n \in RetryEvents : Submit(n)
    \/ \E w \in Workers : ProcessorStep(w)

SpecRetry ==
    /\ InitConc
    /\ [][NextRetry]_vars
    /\ \A w \in Workers : WF_vars(ProcessorStep(w))

(***************************************************************************)
(* The queue under an outage: every attempt of every job raises; the       *)
(* deliveries come one after the other, each once the job before is done.  *)
(***************************************************************************)
ParkEvents == {"lp"}

SubmitNext(n) ==
    /\ \A j \in 1..Len(jobs) : jobs[j].status \in {"failed", "removed"}
    /\ Enqueue(n, MaxParked)

NextPark ==
    \/ \E n \in ParkEvents : SubmitNext(n)
    \/ \E j \in 1..Len(jobs) : Take("w1", j)
    \/ HandlerRaises("w1")

SpecPark == InitConc /\ [][NextPark]_vars

(***************************************************************************)
(* The slots of webhookQueue in a burst.  Both processors are registered   *)
(* on the one queue: each process call starts as many slots as its         *)
(* concurrency says, and every slot of the queue takes the next waiting    *)
(* job, whatever its name, and calls the handler registered for that name. *)
(* No handler ends during the burst.                                       *)
(***************************************************************************)
PoolSlots == 1..(AmoConcurrency + LpConcurrency)

InitPool ==
    /\ probe = NoProbe
    /\ ret = NoReturn
    /\ jobs = <<>>
    /\ wk = [w \in PoolSlots |-> Idle]
    /\ dedup = [k \in {} |-> 0]
    /\ rcache = [u \in {} |-> 0]
    /\ ruleExec = [r \in RuleIds |-> 0]
    /\ hist = [k \in {} |-> NewHist]
    /\ faults = 0
    /\ flaky = "none"
    /\ InitOptimizer
    /\ InitSecurity

SubmitBurst(n) == Enqueue(n, MaxBurst)

\* the first free slot takes job j
TakeFree(j) ==
    \E w \in PoolSlots :
        /\ \A v \in 1..(w - 1) : wk[v].pc # "idle"
        /\ Take(w, j)

NextPool ==
    \/ \E n \in RetryEvents : SubmitBurst(n)
    \/ \E j \in 1..Len(jobs) : TakeFree(j)

SpecPool == InitPool /\ [][NextPool]_vars

(***************************************************************************)
(* The deliveries of one lead of one user that differ in action_timestamp  *)
(* only, or carry none (the AmoCRM routine passes none), through one       *)
(* worker slot; Redis is unreliable or nothing is.                          *)
(***************************************************************************)
StampEvents == {"lp", "lp_later", "lp_nots", "amo"}

InitStamp == Init /\ flaky \in {"redis", "none"}

NextStamp ==
    \/ WorkerStep("w1")
    \/ \E n \in StampEvents : Submit(n)
    \/ Tick
    \/ InvalidateUserCache(U1)

SpecStamp == InitStamp /\ [][NextStamp]_vars

(***************************************************************************)
(* The deliveries of a user whose rule lists an action of unknown type     *)
(* among sync actions, through one worker slot; the adapters are           *)
(* unreliable or nothing is.                                               *)
(***************************************************************************)
ActionEvents == {"lp4"}

InitActions == Init /\ flaky \in {"adapter", "none"}

\* the steps of a worker slot on the jobs of the topic lptracker-webhook
LpWorkerStep(w) ==
    \/ \E j \in 1..Len(jobs) : Take(w, j)
    \/ StartLp(w)
    \/ LoadRulesLp(w)
    \/ RuleCheck(w)
    \/ Dispatch(w)
    \/ Mark(w)
    \/ Count(w)

NextActions ==
    \/ LpWorkerStep("w1")
    \/ \E n \in ActionEvents : Submit(n)
    \/ Tick

SpecActions == InitActions /\ [][NextActions]_vars

(***************************************************************************)
(* The AmoCRM deliveries about one lead of one user, of different kinds    *)
(* (a status change, an update stamped later), through one worker slot,    *)
(* one after the other; Redis is unreliable or nothing is.                 *)
(***************************************************************************)
AmoEvents == {"amo", "amo_upd"}

InitAmo == Init /\ flaky \in {"redis", "none"}

\* the steps of a worker slot on the jobs of the topic amocrm-webhook
AmoWorkerStep(w) ==
    \/ \E j \in 1..Len(jobs) : Take(w, j)
    \/ StartAmo(w)
    \/ FetchLead(w)
    \/ LoadRulesAmo(w)
    \/ RuleCheck(w)
    \/ Dispatch(w)
    \/ Mark(w)
    \/ Count(w)

NextAmo ==
    \/ AmoWorkerStep("w1")
    \/ \E n \in AmoEvents : Submit(n)
    \/ Tick
    \/ InvalidateUserCache(U2)

SpecAmo == InitAmo /\ [][NextAmo]_vars

(***************************************************************************)
(* The AmoCRM deliveries about a lead with two related contacts, through   *)
(* one worker slot; the AmoCRM API is unreliable or nothing is.            *)
(***************************************************************************)
ContactEvents == {"amo_ct"}

InitContacts == Init /\ flaky \in {"api", "none"}

NextContacts ==
    \/ AmoWorkerStep("w1")
    \/ \E n \in ContactEvents : Submit(n)
    \/ Tick

SpecContacts == InitContacts /\ [][NextContacts]_vars

(***************************************************************************)
(* setupSecurity: the rate limiters.  rateLimit(windowMs, max) returns a   *)
(* middleware; both middlewares made from it read and write the one map    *)
(* requestCounts, keyed by the client address.                             *)
(***************************************************************************)
\* the record a middleware writes when it opens a window
FirstRequest(windowMs) == [count |-> 1, resetTime |-> clock + windowMs]

\* the middleware of rateLimit(windowMs, max) on a request of ip: the map
\* afterwards, and whether next() was called (otherwise the answer is 429)
rateLimit(windowMs, max, ip) ==
    IF ip \notin DOMAIN requestCounts
    THEN [counts |-> [x \in DOMAIN requestCounts \cup {ip} |->
                        IF x = ip THEN FirstRequest(windowMs)
                        ELSE requestCounts[x]],
          next |-> TRUE]
    ELSE IF clock > requestCounts[ip].resetTime
    THEN [counts |-> [requestCounts EXCEPT ![ip] = FirstRequest(windowMs)],
          next |-> TRUE]
    ELSE IF requestCounts[ip].count >= max
    THEN [counts |-> requestCounts, next |-> FALSE]
    ELSE [counts |-> [requestCounts EXCEPT ![ip].count = @ + 1],
          next |-> TRUE]

apiLimiter(ip) == rateLimit(ApiWindowMs, ApiMax, ip)
webhookLimiter(ip) == rateLimit(WebhookWindowMs, WebhookMax, ip)

\* app.use('/api/', apiLimiter); app.use('/webhook/', webhookLimiter)
LimiterOf(path, ip) ==
    IF path = "/api/" THEN apiLimiter(ip) ELSE webhookLimiter(ip)

WindowOf(path) == IF path = "/api/" THEN ApiWindowMs ELSE WebhookWindowMs
MaxOf(path) == IF path = "/api/" THEN ApiMax ELSE WebhookMax

\* the window of the limiter of path for ip at this moment, had the limiter
\* a record of its own: the open one, or a new one when none is open
WindowNow(ip, path) ==
    LET win == reference[ip][path]
    IN  IF win.opened < 0 \/ clock > win.opened + WindowOf(path)
        THEN [NoWindow EXCEPT !.opened = clock]
        ELSE win

\* a request of ip to a path under /api/ or /webhook/ reaches its limiter
Request(ip, path) ==
    /\ path = "/webhook/" => WindowNow(ip, path).asked < MaxHooks
    /\ LET after == LimiterOf(path, ip)
           win == WindowNow(ip, path)
       IN  /\ requestCounts' = after.counts
           /\ response' = [ip |-> ip, path |-> path, passed |-> after.next,
                           independent |-> win.asked < MaxOf(path)]
           /\ reference' =
                 [reference EXCEPT
                    ![ip][path] =
                       [win EXCEPT
                          !.asked = IF @ > MaxOf(path) THEN @ ELSE @ + 1,
                          !.passed = IF after.next THEN @ + 1 ELSE @]]
    /\ UNCHANGED <<jobs, wk, dedup, rcache, ruleExec, hist, faults, flaky,
                   probe, ret, optimizer, clock>>

\* time passes between two requests
Pause ==
    /\ clock + ClockStep <= MaxClock * ClockStep
    /\ clock' = clock + ClockStep
    /\ UNCHANGED <<jobs, wk, dedup, rcache, ruleExec, hist, faults, flaky,
                   probe, ret, optimizer, requestCounts, reference,
                   response>>

(***************************************************************************)
(* The lead id of an AmoCRM payload on its own: the four keys of the       *)
(* payload hold any of PayloadIds, and processAmoCrmWebhookDirect picks    *)
(* the lead id.                                                            *)
(***************************************************************************)
\* the values of a key of the form-encoded payload: absent, empty, ids
PayloadIds == {UNDEF, "", "0", "7", "8"}

\* nothing submitted, nothing cached, every collaborator reliable
Quiet ==
    /\ ret = NoReturn
    /\ jobs = <<>>
    /\ wk = [w \in Workers |-> Idle]
    /\ dedup = [k \in {} |-> 0]
    /\ rcache = [u \in {} |-> 0]
    /\ ruleExec = [r \in RuleIds |-> 0]
    /\ hist = [k \in {} |-> NewHist]
    /\ faults = 0
    /\ flaky = "none"
    /\ InitOptimizer
    /\ InitSecurity

InitExtract ==
    /\ probe \in [add : PayloadIds, status : PayloadIds,
                   update : PayloadIds, delete : PayloadIds,
                   done : {FALSE}, leadId : {UNDEF}]
    /\ Quiet

Extract ==
    /\ ~probe.done
    /\ probe' = [probe EXCEPT !.done = TRUE, !.leadId = ExtractLeadId(probe)]
    /\ UNCHANGED pipeline

SpecExtract == InitExtract /\ [][Extract]_vars

\* the limiters on their own
InitLimit == probe = NoProbe /\ Quiet

NextLimit ==
    \/ \E ip \in ClientIps, path \in LimitedPaths : Request(ip, path)
    \/ Pause

SpecLimit == InitLimit /\ [][NextLimit]_vars

(***************************************************************************)
(* The deliveries through one worker slot while the log sink is            *)
(* unreliable: it fails to write up to MaxFaults entries.                  *)
(***************************************************************************)
LogEvents == {"lp", "amo", "amo_noid", "lp_lost"}

InitLog ==
    /\ probe = NoProbe
    /\ ret = NoReturn
    /\ jobs = <<>>
    /\ wk = [w \in Workers |-> Idle]
    /\ dedup = [k \in {} |-> 0]
    /\ rcache = [u \in {} |-> 0]
    /\ ruleExec = [r \in RuleIds |-> 0]
    /\ hist = [k \in {} |-> NewHist]
    /\ faults = 0
    /\ flaky = "log"
    /\ InitOptimizer
    /\ InitSecurity

NextLog ==
    \/ WorkerStep("w1")
    \/ \E n \in LogEvents : Submit(n)
    \/ Tick

SpecLog == InitLog /\ [][NextLog]_vars

(***************************************************************************)
(* PerformanceOptimizer: the cached getters over RedisCache, step by step  *)
(* (read of the cache, read of the storage, write of the cache), the       *)
(* flushes of invalidateUserCache one by one, and a change of the rules in *)
(* the storage.  Redis is the unreliable collaborator; the storage answers. *)
(***************************************************************************)
SETTINGS_CACHE_TTL == 600
METADATA_CACHE_TTL == 1800

\* if (cached), if (settings), if (metadata): arrays and objects are truthy
JsTruthy(v) == v.js # "null"

Digits == <<"0", "1", "2", "3", "4", "5", "6", "7", "8", "9">>

\* JSON.stringify, the text as a sequence of tokens
JSONstringify(v) ==
    LET body == [i \in 1..Len(v.of) |-> Digits[v.of[i] + 1]]
    IN  IF v.js = "null" THEN <<"null">>
        ELSE IF v.js = "array" THEN <<"[">> \o body \o <<"]">>
        ELSE <<"{">> \o body \o <<"}">>

\* JSON.parse
JSONparse(text) ==
    LET body == SubSeq(text, 2, Len(text) - 1)
        nums == [i \in 1..Len(body) |->
                   (CHOOSE d \in 1..10 : Digits[d] = body[i]) - 1]
    IN  IF text = <<"null">> THEN JsNull
        ELSE IF Head(text) = "[" THEN JsArray(nums)
        ELSE [js |-> "object", of |-> nums]

\* the cache keys `sync_rules:${userId}`, `settings:${type}:${userId}` and
\* `metadata:${type}:${userId}:${metadataType}`
RulesKey(userId) ==
    [kind |-> "sync_rules", type |-> "", user |-> userId, sub |-> ""]
SettingsKey(type, userId) ==
    [kind |-> "settings", type |-> type, user |-> userId, sub |-> ""]
MetadataKey(type, userId, metadataType) ==
    [kind |-> "metadata", type |-> type, user |-> userId,
     sub |-> metadataType]

\* the lookups the callers make: one caller reads the configuration of a
\* user (U3 has no AmoCRM settings), the other runs jobs of that user and
\* reads the rules only
GetterKeys(c) ==
    IF c = "a"
    THEN { RulesKey(U1), SettingsKey("amocrm", U1), SettingsKey("amocrm", U3),
           MetadataKey("amocrm", U1, "pipelines") }
    ELSE { RulesKey(U1) }

CacheTTL(kind) ==
    IF kind = "sync_rules" THEN RULES_CACHE_TTL
    ELSE IF kind = "settings" THEN SETTINGS_CACHE_TTL
    ELSE METADATA_CACHE_TTL

\* rows of the metadata tables
MetadataRows ==
    << [userId |-> U1, type |-> "amocrm", metadataType |-> "pipelines"] >>

\* the first of the rows picked, 0 when there is none
FirstRow(picked) ==
    IF picked = {} THEN 0 ELSE CHOOSE i \in picked : \A j \in picked : i <= j

\* storage.getSyncRules / getAmoCrmSettings / getLpTrackerSettings /
\* getAmoCrmMetadata / getLpTrackerMetadata, the latter reduced to
\* `metadata.data`; null when the row is absent
StorageRead(key) ==
    IF key.kind = "sync_rules"
    THEN JsArray(SelectSeq(getSyncRules(key.user),
                           LAMBDA id : id \notin deleted))
    ELSE LET rows == IF key.type = "amocrm" THEN AmoSettings ELSE LpSettings
             row == IF key.kind = "metadata"
                    THEN FirstRow({i \in 1..Len(MetadataRows) :
                                     /\ MetadataRows[i].userId = key.user
                                     /\ MetadataRows[i].type = key.type
                                     /\ MetadataRows[i].metadataType = key.sub})
                    ELSE FirstRow({i \in 1..Len(rows) :
                                     rows[i].userId = key.user})
         IN  IF row = 0 THEN JsNull ELSE JsObject(row)

\* a caller begins getCachedSyncRules, getCachedSettings or getCachedMetadata
CallGetter(c, key) ==
    /\ calls[c].pc = "idle"
    /\ calls' = [calls EXCEPT ![c] = [IdleCall EXCEPT !.pc = "get",
                                                      !.key = key]]
    /\ UNCHANGED <<jobs, wk, dedup, rcache, ruleExec, hist, faults, flaky,
                   probe, ret, cache, deleted, inv, security>>

\* RedisCache.get: `value ? JSON.parse(value) : null`, null when Redis fails
cacheGet(key, redisOk) ==
    IF redisOk /\ key \in DOMAIN cache /\ cache[key].text # <<>>
    THEN JSONparse(cache[key].text)
    ELSE JsNull

\* `const cached = await cache.get(cacheKey); if (cached) return cached`
CacheGet(c) ==
    /\ calls[c].pc = "get"
    /\ \E redisOk \in Outcomes("redis") :
        LET key == calls[c].key
            cached == cacheGet(key, redisOk)
        IN  /\ faults' = faults + Cost(redisOk)
            /\ calls' = [calls EXCEPT ![c] =
                 IF JsTruthy(cached)
                 THEN [@ EXCEPT !.pc = "done", !.out = cached,
                                !.age = cache[key].age,
                                !.late = inv.settled]
                 ELSE [@ EXCEPT !.pc = "load"]]
    /\ UNCHANGED <<jobs, wk, dedup, rcache, ruleExec, hist, flaky, probe, ret,
                   cache, deleted, inv, security>>

\* the read of the storage after a miss; an absent settings or metadata row
\* is returned as null and not cached
StorageGet(c) ==
    /\ calls[c].pc = "load"
    /\ LET val == StorageRead(calls[c].key)
       IN  calls' = [calls EXCEPT ![c] =
             IF calls[c].key.kind = "sync_rules" \/ JsTruthy(val)
             THEN [@ EXCEPT !.pc = "set", !.val = val, !.read = TRUE]
             ELSE [@ EXCEPT !.pc = "done", !.val = val, !.read = TRUE,
                            !.out = JsNull, !.late = inv.settled]]
    /\ UNCHANGED <<jobs, wk, dedup, rcache, ruleExec, hist, faults, flaky,
                   probe, ret, cache, deleted, inv, security>>

\* RedisCache.set: SETEX of the JSON text, a failure of Redis is swallowed
cacheSet_NoExpiry(key, value, ttl, redisOk) ==
    IF redisOk
    THEN [k \in DOMAIN cache \cup {key} |->
            IF k = key
            THEN [text |-> JSONstringify(value), left |-> 2 * ttl, age |-> 0,
                  val |-> value]
            ELSE cache[k]]
    ELSE cache

cacheSet_DropsOnFailure(key, value, ttl, redisOk) ==
    IF redisOk
    THEN [k \in DOMAIN cache \cup {key} |->
            IF k = key
            THEN [text |-> JSONstringify(value), left |-> ttl, age |-> 0,
                  val |-> value]
            ELSE cache[k]]
    ELSE [k \in {} |-> 0]

cacheSet(key, value, ttl, redisOk) ==
    IF redisOk
    THEN [k \in DOMAIN cache \cup {key} |->
            IF k = key
            THEN [text |-> JSONstringify(value), left |-> ttl, age |-> 0,
                  val |-> value]
            ELSE cache[k]]
    ELSE cache

\* `await cache.set(cacheKey, value, TTL); return value`
CacheSet(c) ==
    /\ calls[c].pc = "set"
    /\ \E redisOk \in Outcomes("redis") :
        /\ faults' = faults + Cost(redisOk)
        /\ cache' = cacheSet(calls[c].key, calls[c].val,
                             CacheTTL(calls[c].key.kind), redisOk)
    /\ calls' = [calls EXCEPT ![c] = [@ EXCEPT !.pc = "done",
                                               !.out = calls[c].val,
                                               !.late = inv.settled]]
    /\ UNCHANGED <<jobs, wk, dedup, rcache, ruleExec, hist, flaky, probe, ret,
                   deleted, inv, security>>

\* the caller takes the value returned
Returned(c) ==
    /\ calls[c].pc = "done"
    /\ calls' = [calls EXCEPT ![c] = IdleCall]
    /\ UNCHANGED <<jobs, wk, dedup, rcache, ruleExec, hist, faults, flaky,
                   probe, ret, cache, deleted, inv, security>>

\* invalidateUserCache(userId) is called
CallInvalidate(userId) ==
    /\ inv.pc = "idle"
    /\ inv' = [inv EXCEPT !.pc = "sync_rules", !.user = userId,
                          !.after = deleted # {}]
    /\ UNCHANGED <<jobs, wk, dedup, rcache, ruleExec, hist, faults, flaky,
                   probe, ret, cache, deleted, calls, security>>

\* the keys of the cache a flushPattern of invalidateUserCache deletes
FlushedEntries(kind, userId) ==
    {k \in DOMAIN cache : k.kind = kind /\ IsPrefix(userId, k.user)}

\* RedisCache.flushPattern: KEYS, then DEL of the keys found; keys() returns
\* no key when Redis fails, and a failure of DEL is swallowed
flushPattern(kind, userId, redisOk) ==
    IF redisOk
    THEN [k \in DOMAIN cache \ FlushedEntries(kind, userId) |-> cache[k]]
    ELSE cache

InvalidateOrder ==
    [sync_rules |-> "metadata", metadata |-> "settings",
     settings |-> "webhook", webhook |-> "idle"]

\* the next flushPattern of invalidateUserCache; the call returns after the
\* flush of the webhook:* keys
InvalidateStep ==
    /\ inv.pc \in DOMAIN InvalidateOrder
    /\ \E redisOk \in Outcomes("redis") :
        LET keys == IF inv.pc = "webhook" /\ redisOk
                    THEN FlushedKeys(inv.user) ELSE {}
            users == IF inv.pc = "sync_rules" /\ redisOk
                     THEN FlushedRules(inv.user) ELSE {}
        IN  /\ faults' = faults + Cost(redisOk)
            /\ cache' = flushPattern(inv.pc, inv.user, redisOk)
            /\ dedup' = [k \in DOMAIN dedup \ keys |-> dedup[k]]
            /\ rcache' = [u \in DOMAIN rcache \ users |-> rcache[u]]
            /\ hist' = [k \in DOMAIN hist |->
                         IF k \in keys THEN [hist[k] EXCEPT !.flushed = TRUE]
                         ELSE hist[k]]
    /\ inv' = [inv EXCEPT !.pc = InvalidateOrder[inv.pc],
                          !.settled = @ \/ (inv.pc = "webhook" /\ inv.after)]
    /\ UNCHANGED <<jobs, wk, ruleExec, flaky, probe, ret, deleted, calls,
                   security>>

\* a rule of the user is deleted from the storage
DeleteSyncRule(id) ==
    /\ id \notin deleted
    /\ deleted' = deleted \cup {id}
    /\ inv' = [inv EXCEPT !.after = FALSE, !.settled = FALSE]
    /\ UNCHANGED <<jobs, wk, dedup, rcache, ruleExec, hist, faults, flaky,
                   probe, ret, cache, calls, security>>

InitCache == Init /\ flaky = "redis"

NextCache ==
    \/ \E c \in Callers : \E key \in GetterKeys(c) : CallGetter(c, key)
    \/ \E c \in Callers : CacheGet(c)
    \/ \E c \in Callers : StorageGet(c)
    \/ \E c \in Callers : CacheSet(c)
    \/ \E c \in Callers : Returned(c)
    \/ CallInvalidate(U1)
    \/ InvalidateStep
    \/ DeleteSyncRule(Head(getSyncRules(U1)))
    \/ Tick

SpecCache == InitCache /\ [][NextCache]_vars

(***************************************************************************)
(* checkConditions on its own: every condition tree of up to MaxConds      *)
(* conditions over every event context, evaluated once.                    *)
(***************************************************************************)
ProbeConds ==
    { Cond("status", UNDEFS, "142"), Cond("pipeline", UNDEFS, "5"),
      Cond("event_type", UNDEFS, "lead_created"),
      Cond("field_not_empty", F_custom, UNDEF),
      Cond("mystery", UNDEFS, UNDEF) }

ProbeSeqs == UNION { [1..n -> ProbeConds] : n \in 0..MaxConds }

ProbeTrees ==
    { [CondList(op, rs) EXCEPT !.kind = k] :
        k \in {"null", "norules", "notlist", "list"},
        op \in {UNDEF, "AND", "OR"}, rs \in ProbeSeqs }

ProbeContexts ==
    { NoCtx,
      [NoCtx EXCEPT !.stage_id = "142"],
      [NoCtx EXCEPT !.leadPipeline = "5", !.leadStatus = "142"],
      [NoCtx EXCEPT !.leadPipeline = "5", !.leadStatus = "143"] }

InitEval ==
    /\ Init
    /\ flaky = "none"

Evaluate ==
    /\ ~probe.done
    /\ \E c \in ProbeTrees, x \in ProbeContexts :
          probe' = [NoProbe EXCEPT !.conds = c, !.ctx = x, !.done = TRUE,
                                   !.out = checkConditions(c, x)]
    /\ UNCHANGED pipeline

SpecEval == InitEval /\ [][Evaluate]_vars

(***************************************************************************)
(* isWebhookRelevant on its own: every list of up to MaxUpd updated fields *)
(* against rules with and without field conditions and field mappings.     *)
(***************************************************************************)
ProbeFields == {F_stage, F_stage_id, F_payments, F_ab, F_xab,
                F_custom \o F_ab, F_zz}

ProbeUpds ==
    { [isList |-> FALSE, fields |-> <<>>] }
    \cup { [isList |-> TRUE, fields |-> fs] :
             fs \in UNION { [1..n -> ProbeFields] : n \in 0..MaxUpd } }

ProbeRuleConds ==
    { [CondList("AND", <<>>) EXCEPT !.kind = "null"],
      CondList("AND", <<>>),
      CondList("AND", <<Cond("status", UNDEFS, "142")>>),
      CondList("AND", <<Cond("status", F_ab, "142")>>),
      CondList("AND", <<Cond("field_equals", F_ab, "1")>>) }

ProbeActions ==
    { [ActionList(<<>>) EXCEPT !.kind = "null"],
      ActionList(<<Action("sync_to_amocrm")>>),
      ActionList(<<[Action("sync_to_amocrm") EXCEPT
                      !.fieldMappings = <<F_ab>>]>>),
      ActionList(<<Action("sync_to_amocrm"),
                   [Action("sync_to_lptracker") EXCEPT
                      !.fieldMappings = <<F_zz, F_ab>>]>>) }

Relevance ==
    /\ ~probe.relDone
    /\ \E u \in ProbeUpds, c \in ProbeRuleConds, a \in ProbeActions :
          probe' = [NoProbe EXCEPT
                      !.upd = u, !.conds = c, !.actions = a,
                      !.relDone = TRUE,
                      !.out = isWebhookRelevant(u, [conditions |-> c,
                                                    actions |-> a])]
    /\ UNCHANGED pipeline

SpecRelevance == InitEval /\ [][Relevance]_vars

(***************************************************************************)
(* Properties.                                                             *)
(***************************************************************************)
\* where a worker stands once the dedup lookup let its rule through
PastCheck == {"dispatch", "mark", "count"}
\* where a worker stands inside the rule loop
InLoop == {"rule"} \cup PastCheck

\* nothing disturbed the dedup record of the key: its TTL never ran out
\* after a mark, no flush removed it, no Redis call on it failed
Undisturbed(h) == ~h.late /\ ~h.flushed /\ ~h.fault

AtMostOnce(h) == h.disp <= 1 /\ h.marks <= 1 /\ h.counts <= 1

\* the worker takes a step
Steps(w) == wk'[w] # wk[w]

\* C1 as amended: deliveries of one event processed one after the other
\* within the dedup TTL dispatch the matched rule's actions once, mark the
\* key once and count once, provided the dedup lookup and mark succeed and
\* no cache flush removes the key.
C1_IdempotentSuppression ==
    \A k \in DOMAIN hist : Undisturbed(hist[k]) => AtMostOnce(hist[k])

\* C1 as stated: within the dedup TTL the rule's actions are dispatched
\* once, the key is marked once and the counter incremented once.
C1_Original ==
    \A k \in DOMAIN hist : ~hist[k].late => AtMostOnce(hist[k])

\* a second delivery has been suppressed by the key of the first
C1_Witness ==
    \E w \in Workers :
        /\ wk[w].pc = "rule" /\ wk[w].idx = 2
        /\ wk[w].res = <<"duplicate">>
        /\ Undisturbed(Hist(KeyAt(w, 1)))
        /\ Hist(KeyAt(w, 1)).disp = 1
        /\ Hist(KeyAt(w, 1)).marks = 1
        /\ Hist(KeyAt(w, 1)).counts = 1

\* C2 as amended: under every interleaving of two workers, a worker whose
\* dedup lookup succeeds and finds the key of its matched rule marked does
\* not dispatch the rule; only lookups made before the key's mark let a
\* dispatch through.
C2_SuppressedOnceMarked ==
    [][\A w \in Workers :
          (/\ wk[w].pc = "rule"
           /\ RuleMatches(w)
           /\ KeyOf(w) \in DOMAIN dedup
           /\ Steps(w))
          => /\ wk'[w].pc # "dispatch"
             /\ hist'[KeyOf(w)].disp = hist[KeyOf(w)].disp]_vars

\* C2 as stated: the actions are dispatched once in total and no state has
\* both workers past the dedup check for the same key.
C2_Original ==
    /\ \A k \in DOMAIN hist :
          (~hist[k].late /\ ~hist[k].flushed) => hist[k].disp <= 1
    /\ \A w, v \in Workers :
          (w # v /\ wk[w].pc \in PastCheck /\ wk[v].pc \in PastCheck)
          => KeyOf(w) # KeyOf(v)

\* one worker has been suppressed by the mark of the other, still at work
C2_Witness ==
    \E w, v \in Workers :
        /\ w # v
        /\ wk[v].pc = "count" /\ wk[v].idx = 1
        /\ wk[w].pc = "rule" /\ wk[w].idx = 2
        /\ wk[w].res = <<"duplicate">>
        /\ KeyAt(w, 1) = KeyOf(v)
        /\ Hist(KeyOf(v)).disp = 1

\* the worker's matched rule was marked WEBHOOK_DEDUP_TTL seconds ago or more
Replayed(w) ==
    /\ wk[w].pc = "rule"
    /\ RuleMatches(w) /\ RulePassesFilter(w)
    /\ Hist(KeyOf(w)).marks > 0
    /\ Hist(KeyOf(w)).age >= WEBHOOK_DEDUP_TTL

\* the steps of a replay up to the mark: key absent, dispatch again
ReplayDispatches(w) ==
    /\ (Replayed(w) /\ Steps(w))
          => /\ KeyOf(w) \notin DOMAIN dedup
             /\ wk'[w].pc = "dispatch" /\ wk'[w].replay
    /\ (wk[w].replay /\ wk[w].pc = "dispatch" /\ Steps(w))
          => /\ wk'[w].pc = "mark"
             /\ hist'[KeyOf(w)].disp = Hist(KeyOf(w)).disp + 1

ReplayMarks(w) ==
    /\ KeyOf(w) \in DOMAIN dedup'
    /\ dedup'[KeyOf(w)] = WEBHOOK_DEDUP_TTL

ReplayCounts(w) ==
    ruleExec'[RuleOf(w).id] = ruleExec[RuleOf(w).id] + 1

\* C3 as amended: a replay of an event whose key was last marked 600 seconds
\* ago or more, and whose rule matches again, finds the key absent and
\* dispatches the rule's actions again; it
\* re-marks the key unless the store write fails and increments the counter
\* again unless the increment raises.
C3_ExpiryAllowsRefire ==
    [][\A w \in Workers :
          /\ ReplayDispatches(w)
          /\ (wk[w].replay /\ wk[w].pc = "mark" /\ Steps(w))
                => ReplayMarks(w) \/ faults' > faults
          /\ (wk[w].replay /\ wk[w].pc = "count" /\ Steps(w))
                => ReplayCounts(w) \/ faults' > faults]_vars

\* C3 as stated: the replay finds the key absent, dispatches again, re-marks
\* the key and increments the counter again.
C3_Original ==
    [][\A w \in Workers :
          /\ ReplayDispatches(w)
          /\ (wk[w].replay /\ wk[w].pc = "mark" /\ Steps(w))
                => ReplayMarks(w)
          /\ (wk[w].replay /\ wk[w].pc = "count" /\ Steps(w))
                => ReplayCounts(w)]_vars

\* a replay after the TTL has dispatched a second time and re-marked the key
C3_Witness ==
    \E w \in Workers :
        /\ wk[w].replay /\ wk[w].pc = "count"
        /\ KeyOf(w) \in DOMAIN dedup
        /\ dedup[KeyOf(w)] = WEBHOOK_DEDUP_TTL
        /\ Hist(KeyOf(w)).disp = 2
        /\ ~Hist(KeyOf(w)).flushed /\ ~Hist(KeyOf(w)).fault

\* the event names no owner, or one that no settings row carries
OwnerMiss(e) ==
    /\ e.parseOk
    /\ IF e.src = "amocrm"
       THEN \A i \in 1..Len(AmoSettings) : AmoSettings[i].subdomain # e.owner
       ELSE \A i \in 1..Len(LpSettings) : LpSettings[i].projectId # e.owner

\* C4: processing an event whose subdomain / project id is missing or
\* matches no user writes no dedup key, dispatches nothing, increments no
\* counter, logs one warning and returns: the job completes at its first
\* attempt.
C4_OwnerMissDropped ==
    [][\A w \in Workers :
          (wk[w].job # 0 /\ OwnerMiss(EvOf(w)) /\ Steps(w))
          => /\ wk[w].pc = "start"
             /\ wk'[w] = Idle
             /\ jobs[wk[w].job].attempts = 1
             /\ jobs'[wk[w].job].status = "completed"
             /\ jobs[wk[w].job].warns = 0
             /\ jobs'[wk[w].job].warns = 1
             /\ <<dedup', hist', ruleExec'>> = <<dedup, hist, ruleExec>>]_vars

\* deliveries of both sources without an owner have been dropped
C4_Witness ==
    \E i, j \in 1..Len(jobs) :
        /\ Event(jobs[i].ev).src = "amocrm" /\ Event(jobs[j].ev).src = "lptracker"
        /\ \A x \in {i, j} :
              /\ OwnerMiss(Event(jobs[x].ev))
              /\ jobs[x].status = "completed"
              /\ jobs[x].warns = 1 /\ jobs[x].attempts = 1

\* C5: a job whose lead-detail fetch failed does not end in completed.
C5_EnrichmentFailureRetried ==
    \A j \in 1..Len(jobs) :
        jobs[j].fetchFailed => jobs[j].status # "completed"

\* the primary entity id of the event
EntityId(e) == IF e.src = "amocrm" THEN ExtractLeadId(e) ELSE e.id

\* C6: an event without a primary entity id causes no rule evaluation, no
\* dispatch, no dedup write and no counter increment.
C6_EntityIdMissingTerminal ==
    \A w \in Workers :
        (wk[w].job # 0 /\ ~Truthy(EntityId(EvOf(w)))) => wk[w].pc \notin InLoop

\* C7: only active rules of the event's source are evaluated, dispatched,
\* marked and counted.
C7_RuleSelection ==
    \A w \in Workers :
        wk[w].pc \in InLoop
        => RuleOf(w).isActive /\ RuleOf(w).webhookSource = EvOf(w).src

C9_ActionIsolation ==
    \A w \in Workers :
        wk[w].pc = "mark"
        => /\ Len(wk[w].acts) = Len(RuleOf(w).actions.list)
           /\ \A i \in 1..Len(wk[w].acts) :
                 wk[w].acts[i] \in {"synced", "failed", "unknown"}

\* an adapter call raised and the action behind it was still dispatched
C9_Witness ==
    \E w \in Workers :
        /\ wk[w].pc = "mark"
        /\ Len(wk[w].acts) = 2
        /\ wk[w].acts[1] = "failed" /\ wk[w].acts[2] = "synced"

\* C10: a condition tree with an empty rules list evaluates to false,
\* whatever the operator and the event context.
C10_EmptyTreeNeverMatches ==
    (probe.done /\ probe.conds.kind = "list" /\ Len(probe.conds.rules) = 0)
    => ~probe.out

\* the condition types the switch of checkConditions knows
KnownTypes == {"event_type", "pipeline", "status", "field_equals",
               "field_contains", "field_not_empty"}

\* the positions of the probed tree that hold a condition of unknown type
UnknownAt == {i \in 1..Len(probe.conds.rules) :
                 probe.conds.rules[i].type \notin KnownTypes}

\* C11: a condition tree that is absent, has no rules member or has a rules
\* member that is not a list evaluates to false; a condition of unknown
\* type counts as false, so it makes an AND tree false and adds nothing to
\* an OR tree.
C11_FailClosed ==
    probe.done
    => /\ probe.conds.kind \in {"null", "norules", "notlist"} => ~probe.out
       /\ (probe.conds.kind = "list" /\ UnknownAt # {})
          => IF probe.conds.operator = "OR"
             THEN probe.out =
                    (\E i \in (1..Len(probe.conds.rules)) \ UnknownAt :
                        EvalCondition(probe.conds.rules[i], probe.ctx))
             ELSE ~probe.out

\* an AND tree of a true condition and one of unknown type came out false
C11_Witness ==
    /\ probe.done /\ ~probe.out
    /\ probe.conds.kind = "list" /\ probe.conds.operator = "AND"
    /\ Len(probe.conds.rules) = 2
    /\ probe.conds.rules[1].type = "status"
    /\ EvalCondition(probe.conds.rules[1], probe.ctx)
    /\ UnknownAt = {2}

\* C12: a non-empty list of conditions evaluates to the disjunction of the
\* conditions' results under OR and to their conjunction under AND or with
\* the operator omitted.
C12_OperatorSemantics ==
    (probe.done /\ probe.conds.kind = "list" /\ Len(probe.conds.rules) > 0)
    => probe.out =
         IF probe.conds.operator = "OR"
         THEN \E i \in 1..Len(probe.conds.rules) :
                 EvalCondition(probe.conds.rules[i], probe.ctx)
         ELSE \A i \in 1..Len(probe.conds.rules) :
                 EvalCondition(probe.conds.rules[i], probe.ctx)

\* a tree without operator, one condition true and one false, came out false
C12_Witness ==
    /\ probe.done /\ ~probe.out
    /\ probe.conds.kind = "list" /\ probe.conds.operator = UNDEF
    /\ Len(probe.conds.rules) = 2
    /\ EvalCondition(probe.conds.rules[1], probe.ctx)
    /\ ~EvalCondition(probe.conds.rules[2], probe.ctx)
    /\ probe.conds.rules[2].type \in KnownTypes

\* the updated-fields list of the probed event names stage, stage_id or
\* payments
NamesMustProcess ==
    \E i \in 1..Len(probe.upd.fields) :
        probe.upd.fields[i] \in {F_stage, F_stage_id, F_payments}

\* C13: an event whose updated-fields list is absent or not a list, or
\* contains stage, stage_id or payments, is relevant for every rule.
C13_MustProcess ==
    (probe.relDone /\ (~probe.upd.isList \/ NamesMustProcess)) => probe.out

\* an update of payments was relevant for a rule that references no field
C13_Witness ==
    /\ probe.relDone /\ probe.out
    /\ probe.upd.isList /\ probe.upd.fields = <<F_zz, F_payments>>
    /\ probe.conds.kind = "null" /\ probe.actions.kind = "null"

\* the fields a rule refers to: the fields of its conditions and the source
\* fields of its actions' field mappings
ReferencedFields(r) ==
    (IF r.conditions.kind = "list"
     THEN {r.conditions.rules[i].field : i \in 1..Len(r.conditions.rules)}
              \ {UNDEFS, <<>>}
     ELSE {})
    \cup
    (IF r.actions.kind = "list"
     THEN UNION { {r.actions.list[i].fieldMappings[m] :
                      m \in 1..Len(r.actions.list[i].fieldMappings)} :
                  i \in 1..Len(r.actions.list) }
     ELSE {})

\* the event of worker w carries an updated-fields list without stage,
\* stage_id and payments
PlainUpdate(w) ==
    /\ EvOf(w).src = "lptracker"
    /\ EvOf(w).upd.isList
    /\ \A i \in 1..Len(EvOf(w).upd.fields) :
          EvOf(w).upd.fields[i] \notin {F_stage, F_stage_id, F_payments}

\* no updated field of the event is a field the rule at hand refers to
Disjoint(w) ==
    \A i \in 1..Len(EvOf(w).upd.fields) :
        EvOf(w).upd.fields[i] \notin ReferencedFields(RuleOf(w))

\* no updated field of the event contains the name of a field the rule at
\* hand refers to, or is that name behind "custom."
Untouched(w) ==
    \A i \in 1..Len(EvOf(w).upd.fields) :
        \A f \in ReferencedFields(RuleOf(w)) :
            /\ ~StrIncludes(EvOf(w).upd.fields[i], f)
            /\ EvOf(w).upd.fields[i] # F_custom \o f

\* the step of worker w skips the rule at hand: no dispatch, no dedup mark,
\* no counter increment, and the loop goes on with the next candidate rule
\* or ends behind the last one with the job completed
SkipsRule(w) ==
    /\ wk'[w].pc # "dispatch"
    /\ dedup' = dedup /\ ruleExec' = ruleExec
    /\ LET h == Hist(KeyOf(w))
           g == IF KeyOf(w) \in DOMAIN hist' THEN hist'[KeyOf(w)] ELSE NewHist
       IN  g.disp = h.disp /\ g.marks = h.marks /\ g.counts = h.counts
    /\ IF wk[w].idx < Len(wk[w].cands)
       THEN /\ wk'[w].pc = "rule" /\ wk'[w].idx = wk[w].idx + 1
            /\ wk'[w].cands = wk[w].cands
       ELSE jobs'[wk[w].job].status = "completed"

CondsTrue(w) == checkConditions(RuleOf(w).conditions, EvOf(w).ctx)

\* the relevance filter of LPTracker events lets the rule at hand through
Relevant(w) ==
    EvOf(w).src = "lptracker" => isWebhookRelevant(EvOf(w).upd, RuleOf(w))

\* the dispatch count of every dedup key is what it was
SameDispatches ==
    \A k \in DOMAIN hist' :
        hist'[k].disp = (IF k \in DOMAIN hist THEN hist[k].disp ELSE 0)

\* C15: of the candidate rules of an event exactly those whose conditions
\* evaluate true, that are not dedup-suppressed and that pass the relevance
\* filter of LPTracker events are dispatched; the counter of such a rule
\* goes up by exactly 1 unless the increment raises; a rule whose conditions
\* evaluate false keeps its counter, its dedup state and its dispatch count.
C15_MatchedOnly ==
    [][/\ \A w \in Workers :
            (wk[w].pc = "rule" /\ Steps(w))
            => /\ wk'[w].pc = "dispatch"
                    => /\ CondsTrue(w) /\ Relevant(w)
                       /\ KeyOf(w) \notin DOMAIN dedup \/ faults' > faults
               /\ (CondsTrue(w) /\ Relevant(w)
                      /\ KeyOf(w) \notin DOMAIN dedup)
                    => wk'[w].pc = "dispatch"
               /\ ~CondsTrue(w) => (SkipsRule(w) /\ hist' = hist)
               /\ ruleExec' = ruleExec /\ dedup' = dedup /\ SameDispatches
       /\ \A w \in Workers :
            (wk[w].pc = "dispatch" /\ Steps(w))
            => /\ wk'[w].pc = "mark"
               /\ hist'[KeyOf(w)].disp = Hist(KeyOf(w)).disp + 1
               /\ \A k \in DOMAIN hist' \ {KeyOf(w)} :
                     k \in DOMAIN hist /\ hist'[k].disp = hist[k].disp
       /\ \A w \in Workers :
            (wk[w].pc = "count" /\ Steps(w))
            => \A r \in RuleIds :
                  ruleExec'[r] =
                      ruleExec[r] + (IF r = RuleOf(w).id /\ faults' = faults
                                     THEN 1 ELSE 0)
       /\ (\A w \in Workers : wk[w].pc # "count" \/ ~Steps(w))
            => ruleExec' = ruleExec
       /\ (\A w \in Workers : wk[w].pc # "dispatch" \/ ~Steps(w))
            => SameDispatches]_vars

\* C15 as stated: every rule whose conditions evaluate true and that is not
\* dedup-suppressed is dispatched, and its counter goes up by exactly 1
C15_Original ==
    [][/\ \A w \in Workers :
            (wk[w].pc = "rule" /\ Steps(w)
               /\ CondsTrue(w) /\ KeyOf(w) \notin DOMAIN dedup)
            => wk'[w].pc = "dispatch"
       /\ \A w \in Workers :
            (wk[w].pc = "count" /\ Steps(w))
            => ruleExec'[RuleOf(w).id] = ruleExec[RuleOf(w).id] + 1]_vars

\* of two candidate rules of an event the first did not match and kept its
\* counter, the second was dispatched and counted once
C15_Witness ==
    \E w \in Workers :
        /\ Len(wk[w].res) >= 2
        /\ wk[w].res[1] = "nomatch" /\ wk[w].res[2] = "counted"
        /\ ruleExec[wk[w].cands[1]] = 0 /\ ruleExec[wk[w].cands[2]] = 1

\* an adapter call of the dispatch that worker w has just made raised
DispatchFailed(w) ==
    \E i \in 1..Len(wk[w].acts) : wk[w].acts[i] = "failed"

\* C16: when an adapter call of a matched rule's actions failed, the steps
\* behind the dispatch write no dedup key for the event and the rule and do
\* not increment the rule's execution counter.
C16_MarkOnlyOnSuccess ==
    [][\A w \in Workers :
          (wk[w].pc \in {"mark", "count"} /\ Steps(w) /\ DispatchFailed(w))
              => /\ dedup' = dedup
                 /\ ruleExec' = ruleExec]_vars

\* the step is a call of a submit handler that added a job
Enqueues == Len(jobs') # Len(jobs)

\* C17: a submit adds exactly one job, to the topic of its own source, with
\* attempts 3 and exponential backoff of 2000 ms, and returns the id the
\* queue gave the job; it leaves the worker slots, the dedup store, the rule
\* cache and the counters alone; a worker slot runs the routine of the
\* topic its job was added to, and only the AmoCRM routine enriches.
C17_PureEnqueue ==
    [][/\ Enqueues
            => /\ Len(jobs') = Len(jobs) + 1
               /\ \A j \in 1..Len(jobs) :
                     jobs'[j] = jobs[j] /\ jobs[j].id # jobs'[Len(jobs')].id
               /\ LET job == jobs'[Len(jobs')]
                  IN  /\ job.topic = (IF Event(job.ev).src = "amocrm"
                                      THEN "amocrm-webhook"
                                      ELSE "lptracker-webhook")
                      /\ job.opts.attempts = 3
                      /\ job.opts.backoff =
                             [type |-> "exponential", delay |-> 2000]
                      /\ job.status = "waiting" /\ job.attempts = 0
                      /\ ret' = [kind |-> "returned", id |-> job.id,
                                 log |-> "info"]
       /\ (Enqueues \/ ret' # ret)
            => UNCHANGED <<wk, dedup, rcache, ruleExec, hist>>
       /\ \A w \in Workers :
            wk'[w].job # 0
            => wk'[w].routine =
                  (IF Event(jobs'[wk'[w].job].ev).src = "amocrm"
                   THEN "processAmoCrmWebhookDirect"
                   ELSE "processLpTrackerWebhookDirect")
       /\ \A w \in Workers :
            wk'[w].pc = "fetch" => Event(jobs'[wk'[w].job].ev).src = "amocrm"
      ]_vars

\* jobs of both topics are in the queue and a worker slot runs the LPTracker
\* routine on a job of the LPTracker topic
C17_Witness ==
    /\ ret.kind = "returned" /\ ret.id = Len(jobs)
    /\ \E j \in 1..Len(jobs) : jobs[j].topic = "amocrm-webhook"
    /\ \E w \in Workers :
          /\ wk[w].job # 0
          /\ wk[w].routine = "processLpTrackerWebhookDirect"
          /\ jobs[wk[w].job].topic = "lptracker-webhook"

\* C18: a submit raises exactly when webhookQueue.add raised: it has then
\* logged the error and no job was added; when the job was added, the
\* submit returns the job's id and does not raise.
C18_SubmitFailsOnlyOnEnqueueFailure ==
    [][/\ (flaky = "queue" /\ faults' > faults)
            => /\ ret' = [kind |-> "raised", id |-> 0, log |-> "error"]
               /\ jobs' = jobs
       /\ Enqueues
            => /\ ret'.kind = "returned"
               /\ ret'.id = jobs'[Len(jobs')].id
               /\ faults' = faults
       /\ (ret' # ret /\ ret'.kind = "raised")
            => (jobs' = jobs /\ faults' = faults + 1 /\ flaky = "queue")
       /\ (ret' # ret /\ ret'.kind = "returned")
            => (Enqueues /\ jobs'[ret'.id].id = ret'.id)]_vars

\* the queue refused the only submission so far: the submit raised, the
\* error is logged and the queue holds no job
C18_Witness ==
    /\ ret = [kind |-> "raised", id |-> 0, log |-> "error"]
    /\ flaky = "queue" /\ faults = 1
    /\ jobs = <<>>

\* job j is in the queue, waiting, with a attempts made
WaitingAfter(j, a) ==
    j <= Len(jobs) /\ jobs[j].status = "waiting" /\ jobs[j].attempts = a

\* C19: a job whose handler raised with fewer than 3 attempts made goes
\* back to waiting and is executed again; with 3 attempts made it fails; no
\* job makes more than 3 attempts, and a completed job never changes again.
C19_BoundedRetry ==
    /\ [][\A j \in 1..Len(jobs) :
             /\ jobs'[j].attempts <= 3
             /\ jobs'[j].attempts # jobs[j].attempts
                    => /\ jobs[j].status = "waiting"
                       /\ jobs'[j].status = "active"
                       /\ jobs'[j].attempts = jobs[j].attempts + 1
             /\ (jobs[j].status = "active" /\ jobs'[j].status # "active")
                    => jobs'[j].status =
                          (IF jobs'[j].why # "threw" THEN "completed"
                           ELSE IF jobs[j].attempts < 3 THEN "waiting"
                           ELSE "failed")
             /\ jobs[j].status \in {"completed", "failed", "removed"}
                    => /\ jobs'[j].status \in {jobs[j].status, "removed"}
                       /\ jobs'[j].attempts = jobs[j].attempts]_vars
    /\ \A j \in 1..MaxJobs : \A a \in 1..2 :
          WaitingAfter(j, a)
              ~> (j <= Len(jobs) /\ jobs[j].status = "active"
                                /\ jobs[j].attempts = a + 1)

\* a job failed with its third attempt and another one was completed by its
\* second attempt
C19_Witness ==
    \E i, j \in 1..Len(jobs) :
        /\ jobs[i].status = "failed" /\ jobs[i].attempts = 3
        /\ jobs[j].status = "completed" /\ jobs[j].attempts = 2

\* job j has failed all its 3 attempts
Exhausted(j) ==
    jobs[j].attempts = 3 /\ jobs[j].why = "threw" /\ jobs[j].status # "active"

\* the jobs that failed all their attempts after job j did
FailedAfter(j) ==
    {i \in 1..Len(jobs) : Exhausted(i) /\ jobs[i].doneAt > jobs[j].doneAt}

\* C20: a job that has failed all 3 attempts is in the queue's failed set,
\* and counted by the failed size of a stats call the queue answers, until
\* 50 more jobs have failed after it; then the queue has dropped it.
C20_ParkedWhileRecent ==
    /\ \A j \in 1..Len(jobs) :
          Exhausted(j)
          => (jobs[j].status = "failed" <=> Cardinality(FailedAfter(j)) < 50)
    /\ getQueueStats(TRUE).failed =
          Cardinality({j \in 1..Len(jobs) :
                          Exhausted(j) /\ Cardinality(FailedAfter(j)) < 50})

\* C20 as stated: every job that has failed all 3 attempts is in the failed
\* set and counted, however many jobs have failed
C20_Original ==
    /\ \A j \in 1..Len(jobs) : Exhausted(j) => jobs[j].status = "failed"
    /\ getQueueStats(TRUE).failed =
          Cardinality({j \in 1..Len(jobs) : Exhausted(j)})

\* 51 jobs have failed all their attempts: the first one is gone from the
\* failed set, which holds the 50 others
C20_Witness ==
    /\ Cardinality({j \in 1..Len(jobs) : Exhausted(j)}) = 51
    /\ \E j \in 1..Len(jobs) :
          /\ Exhausted(j) /\ jobs[j].status = "removed"
          /\ Cardinality(FailedAfter(j)) = 50
    /\ getQueueStats(TRUE).failed = 50

\* the moves of a job's status: taken, completed, back to waiting for a
\* retry, failed for good
LifecycleMoves ==
    { <<"waiting", "active">>, <<"active", "completed">>,
      <<"active", "waiting">>, <<"active", "failed">> }

\* job j is in the queue and has ended, completed or failed for good
Ended(j) ==
    j <= Len(jobs) /\ jobs[j].status \in {"completed", "failed"}

\* C21: a job is created waiting and its status only moves waiting ->
\* active, active -> completed, active -> waiting (an attempt failed, a
\* retry is due) or active -> failed (the last attempt failed); with
\* handlers that end and slots that go on taking waiting jobs, every job in
\* the queue ends up completed or failed.
C21_JobLifecycle ==
    /\ [][/\ \A j \in 1..Len(jobs) :
               /\ jobs'[j].status # jobs[j].status
                    => <<jobs[j].status, jobs'[j].status>> \in LifecycleMoves
               /\ (jobs[j].status = "active" /\ jobs'[j].status = "waiting")
                    => jobs[j].attempts < 3
               /\ (jobs[j].status = "active" /\ jobs'[j].status = "failed")
                    => jobs[j].attempts = 3
               /\ (jobs[j].status = "waiting" /\ jobs'[j].status = "active")
                    => jobs'[j].attempts = jobs[j].attempts + 1
           /\ \A n \in (Len(jobs) + 1)..Len(jobs') :
               jobs'[n].status = "waiting" /\ jobs'[n].attempts = 0]_vars
    /\ \A j \in 1..MaxJobs : (j <= Len(jobs)) ~> Ended(j)

\* one job was completed by its third attempt, after two that raised, and
\* another one waits for its retry
C21_Witness ==
    \E i, j \in 1..Len(jobs) :
        /\ jobs[i].status = "completed" /\ jobs[i].attempts = 3
        /\ jobs[j].status = "waiting" /\ jobs[j].attempts = 1
        /\ jobs[j].why = "threw"

\* the jobs of a topic that are being processed
ActiveOf(topic) ==
    {j \in 1..Len(jobs) : jobs[j].status = "active" /\ jobs[j].topic = topic}

\* C22: at most 10 jobs of the amocrm-webhook topic and at most 10 jobs of
\* the lptracker-webhook topic are active at the same time.
C22_BoundedConcurrency ==
    /\ Cardinality(ActiveOf("amocrm-webhook")) <= 10
    /\ Cardinality(ActiveOf("lptracker-webhook")) <= 10

\* the step of worker w is one in which a call of the dedup store failed
StoreFailed(w) == flaky = "redis" /\ Steps(w) /\ faults' > faults

\* C23: when the dedup lookup fails, the key counts as not yet processed
\* and the matching rule, if it passes the relevance filter of LPTracker
\* events, is dispatched; when the dedup mark fails, nothing is written, the
\* loop goes on to the counter, the counter is incremented unless the
\* increment raises, the remaining rules are processed and the job is
\* completed.
C23_DedupStoreDegrades ==
    [][\A w \in Workers :
          /\ (wk[w].pc = "rule" /\ StoreFailed(w)
                 /\ CondsTrue(w) /\ Relevant(w))
                => wk'[w].pc = "dispatch"
          /\ (wk[w].pc = "mark" /\ StoreFailed(w))
                => /\ dedup' = dedup
                   /\ wk'[w].pc = "count"
                   /\ jobs' = jobs
          /\ (wk[w].pc = "count" /\ Steps(w) /\ faults' = faults)
                => /\ ruleExec'[RuleOf(w).id] = ruleExec[RuleOf(w).id] + 1
                   /\ IF wk[w].idx < Len(wk[w].cands)
                      THEN wk'[w].pc = "rule" /\ wk'[w].idx = wk[w].idx + 1
                      ELSE jobs'[wk[w].job].status = "completed"
          /\ (flaky = "redis" /\ wk[w].pc \in InLoop /\ Steps(w))
                => jobs'[wk[w].job].status \in {"active", "completed"}]_vars

\* C23 as stated: with a failing lookup every matching rule is dispatched,
\* and behind a failing mark the counter is incremented
C23_Original ==
    [][\A w \in Workers :
          /\ (wk[w].pc = "rule" /\ StoreFailed(w) /\ CondsTrue(w))
                => wk'[w].pc = "dispatch"
          /\ (wk[w].pc = "count" /\ Steps(w))
                => ruleExec'[RuleOf(w).id] = ruleExec[RuleOf(w).id] + 1]_vars

\* the mark of a key failed: the key is not in the store, the rule was
\* counted and the job is completed
C23_Witness ==
    /\ flaky = "redis"
    /\ \E k \in DOMAIN hist :
          /\ hist[k].fault /\ ~hist[k].flushed /\ hist[k].age = 0
          /\ hist[k].marks = 1 /\ hist[k].counts = 1
          /\ k \notin DOMAIN dedup
    /\ \E j \in 1..Len(jobs) :
          jobs[j].status = "completed" /\ jobs[j].why = "rules"

(***************************************************************************)
(* The configuration cache.                                                *)
(***************************************************************************)
\* caller c takes the step of its call that stands at pc
CallStep(c, pc) == calls[c].pc = pc /\ calls'[c].pc # pc

\* C24: a get that finds a live entry returns the value stored under the
\* key and does not read the storage; a get that finds none reads the
\* storage, stores the value read with the time to live of the kind (rules
\* 300 s, settings 600 s, metadata 1800 s) and returns it (an absent row is
\* returned as null and leaves no entry); the entry a get returns was
\* stored less than its time to live ago
C24_ReadThrough ==
    [][\A c \in Callers :
        LET key == calls[c].key
        IN  /\ (CallStep(c, "get") /\ faults' = faults)
                  => IF key \in DOMAIN cache
                     THEN /\ calls'[c].pc = "done"
                          /\ calls'[c].out = cache[key].val
                          /\ ~calls'[c].read
                          /\ calls'[c].age < CacheTTL(key.kind)
                          /\ cache[key].age + cache[key].left
                                = CacheTTL(key.kind)
                     ELSE calls'[c].pc = "load"
            /\ CallStep(c, "load")
                  => /\ calls'[c].read
                     /\ calls'[c].val = StorageRead(key)
                     /\ IF JsTruthy(StorageRead(key))
                        THEN calls'[c].pc = "set"
                        ELSE /\ calls'[c].pc = "done"
                             /\ calls'[c].out = JsNull
                             /\ cache' = cache
            /\ (CallStep(c, "set") /\ faults' = faults)
                  => /\ calls'[c].pc = "done"
                     /\ calls'[c].out = calls[c].val
                     /\ key \in DOMAIN cache'
                     /\ cache'[key].val = calls[c].val
                     /\ cache'[key].left = CacheTTL(key.kind)
                     /\ cache'[key].age = 0]_vars

\* a get of the metadata returned the entry stored 1500 s or more before,
\* another read the storage and stored the rules
C24_Witness ==
    /\ calls["a"].pc = "done" /\ ~calls["a"].read
    /\ calls["a"].key.kind = "metadata" /\ calls["a"].age >= 1500
    /\ calls["b"].pc = "done" /\ calls["b"].read
    /\ RulesKey(U1) \in DOMAIN cache

\* C25: a get whose read of the cache fails goes on as after a miss and
\* loads the value from the storage; a get whose write of the cache fails
\* returns the value loaded and leaves the cache as it was; every step of a
\* get behind a failure of Redis is a step of the getter towards its
\* return, none raises
C25_CacheFailuresDegrade ==
    [][\A c \in Callers :
        /\ (CallStep(c, "get") /\ faults' > faults)
              => /\ calls'[c].pc = "load"
                 /\ cache' = cache
        /\ (CallStep(c, "load") /\ faults > 0)
              => /\ calls'[c].val = StorageRead(calls[c].key)
                 /\ calls'[c].pc \in {"set", "done"}
        /\ (CallStep(c, "set") /\ faults' > faults)
              => /\ calls'[c].pc = "done"
                 /\ calls'[c].out = calls[c].val
                 /\ cache' = cache
        /\ (calls[c].pc \in {"get", "load", "set"} /\ faults' > faults
                /\ calls'[c] # calls[c])
              => calls'[c].pc \in {"load", "done"}]_vars

\* the write of the settings failed: the get returned them, no entry exists
C25_Witness ==
    /\ faults = 1
    /\ calls["a"].pc = "done" /\ calls["a"].read
    /\ calls["a"].key = SettingsKey("amocrm", U1)
    /\ calls["a"].out = JsObject(1)
    /\ calls["a"].key \notin DOMAIN cache

\* the call of invalidateUserCache returns with this step
InvalidateReturns == inv.pc = "webhook" /\ inv'.pc = "idle"

\* the entries of the cache keyed by the user
EntriesOf(userId, entries) == {k \in entries : k.user = userId}

\* C26: when invalidateUserCache(userId) returns, the cache holds no rules,
\* settings or metadata entry keyed by that user
C26_InvalidateClearsUser ==
    [][InvalidateReturns => EntriesOf(inv.user, DOMAIN cache') = {}]_vars

\* C27: once the rules of a user were changed in the storage and a call of
\* invalidateUserCache(userId) begun after the change has returned, every
\* getCachedSyncRules(userId) that returns yields the rules as they are in
\* the storage (stated with Redis answering all along)
C27_FreshAfterInvalidate ==
    \A c \in Callers :
        (/\ faults = 0
         /\ calls[c].pc = "done" /\ calls[c].late
         /\ calls[c].key.kind = "sync_rules")
            => calls[c].out = StorageRead(calls[c].key)

\* the last component of a dedup key, and the key without it
TokenOf(k) == k[5]
EntityOf(k) == SubSeq(k, 1, 4)

\* the token generateWebhookKey gives the event of the worker's job
StampOf(w) ==
    IF EvOf(w).src = "amocrm" \/ EvOf(w).ts = 0 THEN "default"
    ELSE ToString(EvOf(w).ts)

\* the deliveries of one (user, lead, rule) that carry no timestamp share
\* one key with the token default, those that carry one have their own key
KeyPerTimestamp(w) ==
    wk[w].pc \in InLoop
        => /\ EntityOf(KeyOf(w)) = <<"webhook", wk[w].userId, wk[w].leadId,
                                     RuleOf(w).id>>
           /\ TokenOf(KeyOf(w)) = StampOf(w)

\* C28 as amended: events of one (user, lead, rule) without a timestamp map
\* to the key with the token default, and a later one is suppressed within
\* the TTL provided the lookup and the mark succeed and no flush removes
\* the key; events with distinct timestamps map to distinct keys, and the
\* key of one does not keep the other from being dispatched
C28_TimestampComponent ==
    /\ [](\A w \in Workers : KeyPerTimestamp(w))
    /\ [](\A k \in DOMAIN hist :
             (TokenOf(k) = "default" /\ Undisturbed(hist[k]))
                => AtMostOnce(hist[k]))
    /\ [][\A w \in Workers :
            (/\ wk[w].pc = "rule" /\ Steps(w)
             /\ CondsTrue(w) /\ Relevant(w)
             /\ Hist(KeyOf(w)).marks = 0
             /\ \E k \in DOMAIN dedup :
                   EntityOf(k) = EntityOf(KeyOf(w)) /\ k # KeyOf(w))
                => wk'[w].pc = "dispatch"]_vars

\* C28 as stated: the second of two events without a timestamp is
\* suppressed within the TTL, two events with distinct timestamps are both
\* dispatched
C28_Original ==
    /\ [](\A k \in DOMAIN hist :
             (TokenOf(k) = "default" /\ ~hist[k].late)
                => AtMostOnce(hist[k]))
    /\ [][\A w \in Workers :
            (/\ wk[w].pc = "rule" /\ Steps(w)
             /\ CondsTrue(w) /\ Relevant(w)
             /\ Hist(KeyOf(w)).marks = 0)
                => wk'[w].pc = "dispatch"]_vars

\* the events lp (timestamp 1) and lp_later (timestamp 2) of one lead were
\* both dispatched under rule 1 and both keys are in the store
C28_Witness ==
    LET k1 == generateWebhookKey(U1, "7", 1, 1)
        k2 == generateWebhookKey(U1, "7", 1, 2)
    IN  /\ k1 # k2
        /\ k1 \in DOMAIN dedup /\ k2 \in DOMAIN dedup
        /\ hist[k1].disp = 1 /\ hist[k2].disp = 1
        /\ faults = 0

\* the positions of the rule at hand whose action is of unknown type
UnknownActions(w) ==
    {i \in 1..Len(RuleOf(w).actions.list) :
        ~IsSyncAction(RuleOf(w).actions.list[i])}

\* the adapter calls made for the action at position i
CallsFor(made, i) == {n \in 1..Len(made) : made[n].pos = i}

\* C29: in the dispatch of a rule, an action whose type is neither
\* sync_to_amocrm nor sync_to_lptracker ends in the warning branch with no
\* adapter call, every other action of the list, before and behind it, gets
\* its adapter call, and the rule is then dedup-marked and counted
C29_UnknownActionNotFatal ==
    [][\A w \in Workers :
        /\ (wk[w].pc = "dispatch" /\ Steps(w))
              => /\ wk'[w].pc = "mark"
                 /\ Len(wk'[w].acts) = Len(RuleOf(w).actions.list)
                 /\ \A i \in 1..Len(RuleOf(w).actions.list) :
                       IF i \in UnknownActions(w)
                       THEN /\ wk'[w].acts[i] = "unknown"
                            /\ CallsFor(wk'[w].sent, i) = {}
                       ELSE /\ wk'[w].acts[i] \in {"synced", "failed"}
                            /\ Cardinality(CallsFor(wk'[w].sent, i)) = 1
        /\ (wk[w].pc = "mark" /\ Steps(w) /\ UnknownActions(w) # {})
              => /\ wk'[w].pc = "count"
                 /\ KeyOf(w) \in DOMAIN dedup'
                 /\ dedup'[KeyOf(w)] = WEBHOOK_DEDUP_TTL
        /\ (wk[w].pc = "count" /\ Steps(w) /\ UnknownActions(w) # {})
              => ruleExec'[RuleOf(w).id] = ruleExec[RuleOf(w).id] + 1]_vars

\* rule 8 was dispatched: its first action, of unknown type, was passed
\* over, the three behind it were synced, the key is marked and the rule
\* counted
C29_Witness ==
    /\ \E j \in 1..Len(jobs) :
          jobs[j].ev = "lp4" /\ jobs[j].status = "completed"
                             /\ jobs[j].why = "rules"
    /\ ruleExec[8] = 1
    /\ generateWebhookKey(U4, "7", 8, 1) \in DOMAIN dedup
    /\ Hist(generateWebhookKey(U4, "7", 8, 1)).disp = 1
    /\ faults = 0

\* the call made for the action at position i is the one call of the
\* service of the action's type, with the action's searchBy or with phone
RoutedCall(made, action, i) ==
    \E n \in 1..Len(made) :
        /\ CallsFor(made, i) = {n}
        /\ action.type = "sync_to_amocrm"
              => made[n].adapter = "amoCrmService.syncToAmoCrm"
        /\ action.type = "sync_to_lptracker"
              => made[n].adapter = "lpTrackerService.syncToLpTracker"
        /\ made[n].searchBy = (IF action.searchBy \in {UNDEF, ""}
                               THEN "phone" ELSE action.searchBy)

\* C30: the dispatch of a rule makes, in the order of the list, one call of
\* the AmoCRM adapter for every action of type sync_to_amocrm and one call
\* of the LPTracker adapter for every action of type sync_to_lptracker, no
\* other call, and passes the action's searchBy, or phone when the action
\* has none (or an empty one)
C30_ActionRouting ==
    [][\A w \in Workers :
        (wk[w].pc = "dispatch" /\ Steps(w))
            => LET list == RuleOf(w).actions.list
                   made == wk'[w].sent
               IN  /\ Len(made) = Cardinality(SyncPositions(RuleOf(w).actions))
                   /\ \A i \in SyncPositions(RuleOf(w).actions) :
                         RoutedCall(made, list[i], i)
                   /\ \A n \in 1..Len(made) :
                         /\ made[n].pos \in SyncPositions(RuleOf(w).actions)
                         /\ \A m \in 1..Len(made) :
                               n < m => made[n].pos < made[m].pos]_vars

\* rule 8 was dispatched: the AmoCRM adapter was called with email, the
\* LPTracker adapter with phone, the AmoCRM adapter with phone
C30_Witness ==
    \E w \in Workers :
        /\ wk[w].pc = "mark" /\ RuleOf(w).id = 8
        /\ Len(wk[w].sent) = 3
        /\ wk[w].sent[1] = [pos |-> 2, adapter |-> "amoCrmService.syncToAmoCrm",
                            searchBy |-> "email"]
        /\ wk[w].sent[2].adapter = "lpTrackerService.syncToLpTracker"
        /\ wk[w].sent[2].searchBy = "phone"
        /\ wk[w].sent[3].adapter = "amoCrmService.syncToAmoCrm"
        /\ wk[w].sent[3].searchBy = "phone"

(***************************************************************************)
(* C31  Logging never fails the caller.  A step in which the log sink      *)
(* fails to write an entry ends as the same step does when the entry is    *)
(* written: a submit returns the id of the job it added to the queue; the  *)
(* start of a processing resolves the owner and the lead id and goes on    *)
(* (or completes the job where there is none); the rule at hand is         *)
(* evaluated and goes to its dispatch exactly when it matches, is not      *)
(* marked and passes the relevance filter, and is left as not matching, a  *)
(* duplicate or irrelevant otherwise (never as an error); the job is       *)
(* neither put back for a retry nor failed.                                *)
(***************************************************************************)
\* the log sink failed to write an entry in this step
LogLost == flaky = "log" /\ faults' = faults + 1

\* the processing of the job of slot w gets past its start
Resolves(w) ==
    /\ Truthy(EvOf(w).owner)
    /\ IF wk[w].routine = "processAmoCrmWebhookDirect"
       THEN /\ findUserBySubdomain(EvOf(w).owner, TRUE) # NoUser
            /\ Truthy(ExtractLeadId(EvOf(w)))
       ELSE /\ EvOf(w).parseOk
            /\ findUserByProjectId(EvOf(w).owner, TRUE) # NoUser

\* the rule at hand of slot w is to be dispatched
ToDispatch(w) ==
    /\ RuleMatches(w)
    /\ KeyOf(w) \notin DOMAIN dedup
    /\ RulePassesFilter(w)

SubmitUnharmed ==
    /\ jobs' = Append(jobs, jobs'[Len(jobs')])
    /\ jobs'[Len(jobs')].status = "waiting"
    /\ ret'.kind = "returned"
    /\ ret'.id = jobs'[Len(jobs')].id

ProcessUnharmed(w) ==
    LET j == wk[w].job
    IN  /\ jobs'[j].status \in {"active", "completed"}
        /\ jobs'[j].why # "threw"
        /\ wk[w].pc = "start"
              => /\ Resolves(w) <=> wk'[w].pc \in {"fetch", "load"}
                 /\ ~Resolves(w) <=> jobs'[j].status = "completed"
        /\ wk[w].pc = "rule"
              => /\ ToDispatch(w) <=> wk'[w].pc = "dispatch"
                 /\ wk'[w].pc = "rule"
                       => wk'[w].res[Len(wk'[w].res)]
                             \in {"nomatch", "duplicate", "irrelevant"}
                 /\ wk'[w].pc = "idle" => jobs'[j].why = "rules"

HistAfter(k) == IF k \in DOMAIN hist' THEN hist'[k] ELSE NewHist

\* slot w comes to the step named pc in this step
Enters(w, pc) == wk'[w].pc = pc /\ wk[w].pc # pc

StepOrder(w) ==
    /\ Enters(w, "dispatch") => wk[w].pc = "rule" /\ RuleMatches(w)
    /\ Enters(w, "mark")
          => /\ wk[w].pc = "dispatch"
             /\ HistAfter(KeyOf(w)).disp = Hist(KeyOf(w)).disp + 1
             /\ dedup' = dedup
    /\ Enters(w, "count")
          => /\ wk[w].pc = "mark"
             /\ HistAfter(KeyOf(w)).marks = Hist(KeyOf(w)).marks + 1
             /\ ruleExec' = ruleExec
    /\ \A k \in DOMAIN dedup' \ DOMAIN dedup :
          wk[w].pc = "mark" /\ k = KeyOf(w) /\ Hist(k).disp >= 1

CountedInOrder ==
    \A r \in RuleIds :
        ruleExec'[r] # ruleExec[r]
           => /\ ruleExec'[r] = ruleExec[r] + 1
              /\ \E w \in Workers :
                    /\ wk[w].pc = "count"
                    /\ RuleOf(w).id = r
                    /\ Hist(KeyOf(w)).disp >= 1
                    /\ Hist(KeyOf(w)).marks >= 1

C32_StepOrder ==
    /\ [](\A k \in DOMAIN dedup : Hist(k).disp >= 1)
    /\ [](\A k \in DOMAIN hist :
            hist[k].counts <= hist[k].marks /\ hist[k].marks <= hist[k].disp)
    /\ [][StepOrder("w1") /\ CountedInOrder]_vars

\* a rule has gone through the four steps: dispatched, marked (the key is
\* present) and counted, once each
C32_Witness ==
    \E k \in DOMAIN dedup :
        /\ Hist(k).disp = 1
        /\ Hist(k).marks = 1
        /\ Hist(k).counts = 1
        /\ ruleExec[k[4]] = 1

(***************************************************************************)
(* C33  A failure of the configuration store while the rules are loaded    *)
(* is retried.  For both sources, when the read of the user's rules from   *)
(* the storage raises, the processing raises: the queue puts the job back  *)
(* for a retry (or fails it once its attempts are used up); the job is     *)
(* not completed.                                                          *)
(***************************************************************************)
\* the read of the rules from the storage raises in this step of slot w
RulesReadFails(w) ==
    wk[w].pc = "load" /\ flaky = "db" /\ faults' = faults + 1

C33_RulesLoadFailureRetried ==
    [][\A w \in Workers :
          RulesReadFails(w)
             => /\ jobs'[wk[w].job].status \in {"waiting", "failed"}
                /\ jobs'[wk[w].job].why = "threw"]_vars

(***************************************************************************)
(* C34  AmoCRM entity id extraction.  Whatever the four keys               *)
(* leads[add][0][id], leads[status][0][id], leads[update][0][id],          *)
(* leads[delete][0][id] of the payload hold, the lead id taken is the      *)
(* value of the first key, in this order, that holds a non-empty value,    *)
(* and there is no lead id when none does.                                 *)
(***************************************************************************)
\* the keys in their order of priority
LeadIdKeys == <<"add", "status", "update", "delete">>

\* the positions of the keys the payload populates
PopulatedKeys == {i \in 1..4 : probe[LeadIdKeys[i]] \notin {UNDEF, ""}}

C34_FirstPopulatedKey ==
    probe.done
       => IF PopulatedKeys = {} THEN probe.leadId = UNDEF
          ELSE \E i \in PopulatedKeys :
                  /\ \A j \in PopulatedKeys : i <= j
                  /\ probe.leadId = probe[LeadIdKeys[i]]

\* three keys populated with different ids, the first key empty: the id of
\* leads[status] is taken
C34_Witness ==
    /\ probe.done
    /\ probe.add = ""
    /\ probe.status = "8"
    /\ probe.update = "7"
    /\ probe.delete = "0"
    /\ probe.leadId = "8"

(***************************************************************************)
(* C35  What removes a dedup record.  As amended: a dedup key leaves the   *)
(* store only when its 600 s have run out, or in a cache flush, that is    *)
(* invalidateUserCache(U) for a U the key's user id begins with, or        *)
(* clearAllCaches(); no submit and no step of a processing removes a key.  *)
(* A key whose mark succeeded is present as long as 600 s have not passed  *)
(* and no such flush has been made.                                        *)
(***************************************************************************)
\* key k runs out in this step
Expires(k) ==
    /\ dedup[k] <= TickStep
    /\ \A x \in DOMAIN dedup' : dedup'[x] = dedup[x] - TickStep
    /\ UNCHANGED <<jobs, wk, ruleExec>>

\* a cache flush that covers key k is made in this step
FlushCovers(k) ==
    \/ ClearAllCaches
    \/ \E u \in Users : IsPrefix(u, k[2]) /\ InvalidateUserCache(u)

StaysWhileFresh ==
    \A k \in DOMAIN hist :
        hist[k].marks >= 1 /\ Undisturbed(hist[k]) => k \in DOMAIN dedup

C35_RemovedByExpiryOrFlush ==
    /\ []StaysWhileFresh
    /\ [][\A k \in DOMAIN dedup \ DOMAIN dedup' :
             Expires(k) \/ FlushCovers(k)]_vars

\* C35 as stated: a dedup key leaves the store only when its 600 s have run
\* out.
C35_Original ==
    [][\A k \in DOMAIN dedup \ DOMAIN dedup' : Expires(k)]_vars

\* a key was marked and a flush has removed it before its 600 s were over,
\* while another delivery of the event waits in the queue
C35_Witness ==
    \E k \in DOMAIN hist :
        /\ hist[k].marks >= 1
        /\ hist[k].flushed /\ ~hist[k].late /\ ~hist[k].fault
        /\ k \notin DOMAIN dedup
        /\ \E j \in 1..Len(jobs) : jobs[j].status = "waiting"

(***************************************************************************)
(* C36  invalidateUserCache is user-scoped.  For two distinct users U and  *)
(* V, also when the id of V begins with the id of U,                       *)
(* invalidateUserCache(U) leaves the cached rules of V as they are.        *)
(***************************************************************************)
\* the cached rules of user v are what they were before the step
RulesEntryKept(v) ==
    v \in DOMAIN rcache => v \in DOMAIN rcache' /\ rcache'[v] = rcache[v]

C36_InvalidateUserScoped ==
    [][\A u \in Users :
          InvalidateUserCache(u)
             => \A v \in Users \ {u} : RulesEntryKept(v)]_vars

(***************************************************************************)
(* C37  AmoCRM events use the default timestamp slot.  As amended: on the  *)
(* AmoCRM path every dedup key ends with the token default, whatever the   *)
(* kind and the content of the event; so, for one user, lead and rule,     *)
(* events processed one after the other within 600 s of the mark dispatch  *)
(* the rule once, mark once and count once, provided the dedup lookup and  *)
(* the mark succeed and no cache flush removes the key.                    *)
(***************************************************************************)
\* slot w is in the rule loop of processLeadRules
InAmoLoop(w) ==
    /\ wk[w].routine = "processAmoCrmWebhookDirect"
    /\ wk[w].pc \in {"rule", "dispatch", "mark", "count"}

\* every key built on the AmoCRM path ends with default and names the lead
\* of the event (all AmoCRM events of this specification are of lead 7)
DefaultSlot ==
    /\ \A w \in Workers : InAmoLoop(w) => KeyOf(w)[5] = "default"
    /\ \A k \in DOMAIN dedup \cup DOMAIN hist :
          /\ k[5] = "default"
          /\ k[3] = "7"

C37_AmoDefaultSlot ==
    /\ DefaultSlot
    /\ \A k \in DOMAIN hist :
          ~hist[k].late /\ ~hist[k].flushed /\ ~hist[k].fault
             => hist[k].disp <= 1 /\ hist[k].marks <= 1
                                /\ hist[k].counts <= 1

\* C37 as stated: within 600 s of the mark, events processed one after the
\* other dispatch a rule once for one user and lead.
C37_Original ==
    /\ DefaultSlot
    /\ \A k \in DOMAIN hist : ~hist[k].late => hist[k].disp <= 1

\* a status event was processed and marked the key; the slot, on an update
\* event of the same lead, has found the rule a duplicate
C37_Witness ==
    /\ Len(jobs) = 2
    /\ jobs[1].ev = "amo" /\ jobs[1].status = "completed"
    /\ jobs[2].ev = "amo_upd"
    /\ wk["w1"].job = 2
    /\ wk["w1"].res # <<>>
    /\ wk["w1"].res[1] = "duplicate"
    /\ Hist(KeyAt("w1", 1)).disp = 1

(***************************************************************************)
(* C38  Contact enrichment is best-effort.  When getLeadDetails has        *)
(* answered, the enrichment goes on to the rules whatever the contact      *)
(* fetches do: every contact whose fetch raised is logged as a warning,    *)
(* every other contact of the lead is fetched, before and after it, and    *)
(* the rule loop runs with the contacts fetched, in their order; the job   *)
(* is not failed or retried.                                               *)
(***************************************************************************)
\* the enrichment of slot w ends in this step with the lead fetched
LeadFetched(w) ==
    /\ wk[w].pc = "fetch"
    /\ wk'[w] # wk[w]
    /\ ~jobs'[wk[w].job].fetchFailed

\* seq lists contacts of 1..n in rising order
InOrder(seq, n) ==
    /\ \A i \in 1..Len(seq) : seq[i] \in 1..n
    /\ \A i, j \in 1..Len(seq) : i < j => seq[i] < seq[j]

ContactsKept(w) ==
    /\ wk[w].routine = "processAmoCrmWebhookDirect"
    /\ wk[w].pc \in {"load", "rule", "dispatch", "mark", "count"}
    => /\ InOrder(wk[w].contacts, EvOf(w).contacts)
       /\ Len(wk[w].contacts) + jobs[wk[w].job].warns = EvOf(w).contacts
       /\ jobs[wk[w].job].status = "active"
       /\ jobs[wk[w].job].attempts = 1

C38_ContactsBestEffort ==
    /\ [](\A w \in Workers : ContactsKept(w))
    /\ [][\A w \in Workers :
             LeadFetched(w)
                => /\ wk'[w].pc = "load"
                   /\ jobs'[wk[w].job].status = "active"
                   /\ jobs'[wk[w].job].warns
                         = jobs[wk[w].job].warns + faults' - faults]_vars

\* the fetch of the first contact failed, the second contact was fetched,
\* and a rule has been dispatched with it
C38_Witness ==
    /\ flaky = "api"
    /\ wk["w1"].pc = "mark"
    /\ wk["w1"].contacts = <<2>>
    /\ jobs[wk["w1"].job].warns = 1

(***************************************************************************)
(* C39.  API rate limit: for every client address and every sequence of    *)
(* requests to /api/ and /webhook/ paths, at most 100 requests to /api/    *)
(* are admitted within one 15-minute window of the address, the window     *)
(* opening with the first /api/ request that no earlier window covers;     *)
(* the 101st and later requests of the window are answered 429.            *)
(***************************************************************************)
AdmittedInWindow(ip, path) == reference[ip][path].passed

C39_ApiRateLimit ==
    \A ip \in ClientIps : AdmittedInWindow(ip, "/api/") <= ApiMax

(***************************************************************************)
(* C40.  Independent budgets: whether a request to /webhook/ is admitted   *)
(* depends only on the earlier /webhook/ requests of the address (at most  *)
(* 60 a minute) and not on its requests to /api/, and whether a request    *)
(* to /api/ is admitted depends only on its earlier /api/ requests: every  *)
(* answer is the one a limiter with a record of its own gives.             *)
(***************************************************************************)
Answered == response.path \in LimitedPaths

C40_IndependentBudgets ==
    Answered => response.passed = response.independent


====
